---- MODULE Spec2Model ----
(***************************************************************************)
(* The per-document controller of the vscoq language server               *)
(* (server CoqDocument, src/unnamed/part_000 lines 1-919) together with    *)
(* the state-transaction machine (STM) it drives.  The controller is       *)
(* translated from its source.  The STM, the sentence parser and the text  *)
(* utilities are imported by the controller but are not among the source   *)
(* files; they are modelled from the specification (spec.md 4.2, 4.3, 5).  *)
(*                                                                         *)
(* Documents are single-line, so a Position is its character offset.       *)
(* Every `await` of the controller is a point at which other handlers may  *)
(* run, so each asynchronous operation is a chain of atomic steps.         *)
(***************************************************************************)
EXTENDS Integers, Sequences, FiniteSets, TLC

\* ------------------------------------------------------------------ bounds
MaxOps == 3        \* inputs of one history: client requests, prover reports

Slots == {1, 2, 3} \* operations that can be suspended at the same time

Chars == {"a", ".", " "}
InitTexts == { <<"a", ".", " ", "a", ".">> }

\* ------------------------------------------------------------- text utils
Min(x, y) == IF x < y THEN x ELSE y
Max(x, y) == IF x > y THEN x ELSE y

\* String.prototype.substring(a, b): clamps to [0, length], swaps if a > b
substring(s, a, b) ==
  LET ca == Max(0, Min(a, Len(s)))
      cb == Max(0, Min(b, Len(s)))
      lo == Min(ca, cb)
      hi == Max(ca, cb)
  IN  SubSeq(s, lo + 1, hi)

\* String.prototype.substr(start, length)
substr(s, start, length) ==
  LET st == Max(0, Min(start, Len(s)))
      n  == Max(0, Min(length, Len(s) - st))
  IN  SubSeq(s, st + 1, st + n)

\* textUtil.offsetAt / textUtil.positionAt on a single-line document
offsetAt(text, pos) == Max(0, Min(pos, Len(text)))
positionAt(text, offset) == Max(0, Min(offset, Len(text)))

IsBlank(s) == \A i \in 1..Len(s) : s[i] = " "

\* number of leading blanks of s
LeadingBlanks(s) ==
  IF IsBlank(s) THEN Len(s)
  ELSE (CHOOSE i \in 1..Len(s) : s[i] # " " /\ \A j \in 1..(i-1) : s[j] = " ") - 1

\* --------------------------------------------------------- sentence parser
\* a '.' followed by blank or end of input terminates a sentence
IsTerminator(txt, i) == txt[i] = "." /\ (i = Len(txt) \/ txt[i+1] = " ")

\* coqParser.parseSentence: length of the next sentence of txt (leading
\* blanks included), or -1 when no sentence can be delimited
parseSentence(txt) ==
  IF \E i \in 1..Len(txt) : IsTerminator(txt, i)
  THEN CHOOSE i \in 1..Len(txt) :
         IsTerminator(txt, i) /\ \A j \in 1..(i-1) : ~IsTerminator(txt, j)
  ELSE -1


\* ------------------------------------------------- command sequence (code)
NoEnd == 0 - 1     \* `end` argument left undefined

\* endOffset as computed on entry of commandSequenceGenerator
genEndOffset(text, end) ==
  IF end = NoEnd THEN Len(text) ELSE Min(offsetAt(text, end), Len(text))

\* one turn of the generator's loop at currentOffset cur: either a command
\* is yielded (ok) and the loop continues at next, or the generator returns
commandSequenceGenerator(text, cur, endOffset) ==
  LET commandLength == parseSentence(substr(text, cur, endOffset))
      nextOffset == cur + commandLength
  IN  IF commandLength > 0 \/ nextOffset > endOffset
      THEN [ok |-> TRUE,
            text |-> substring(text, cur, nextOffset),
            b |-> positionAt(text, cur),
            e |-> positionAt(text, nextOffset),
            next |-> nextOffset]
      ELSE [ok |-> FALSE, text |-> <<>>, b |-> cur, e |-> cur, next |-> cur]

\* commandSequence(highlight): the flag is not handed on to the generator,
\* whose `highlight` parameter therefore keeps its default
commandSequence(highlight) == FALSE

\* --------------------------------------------------- what the client sees
\* one record shape for every output: t is "hl", "diag", "resp", "reset",
\* "msg", or the bookkeeping entry "drop" (an event the STM discarded).
\* op is the slot of the operation whose control flow produced the output
\* (0: the prover event pump); sid is the sentence an STM report is about.
Note(t, op, kind, style, b, e, sid, foc, list) ==
  [t |-> t, op |-> op, kind |-> kind, style |-> style, b |-> b, e |-> e,
   sid |-> sid, focus |-> foc, list |-> list]

NoFocus == 0 - 1

\* the switch with the case of ProcessingInput left out
sentenceStatusToHighlightType_noProcessing(status) ==
  CASE status = "Complete" -> "Complete"
    [] status = "Incomplete" -> "Incomplete"
    [] status = "InProgress" -> "InProgress"
    [] status = "Parsed" -> "Parsing"
    [] status = "Processed" -> "Processed"
    [] OTHER -> "undefined"

\* sentenceStatusToHighlightType: a switch without default
sentenceStatusToHighlightType(status) ==
  CASE status = "Complete" -> "Complete"
    [] status = "Incomplete" -> "Incomplete"
    [] status = "InProgress" -> "InProgress"
    [] status = "Parsed" -> "Parsing"
    [] status = "Processed" -> "Processed"
    [] status = "ProcessingInput" -> "Processing"
    [] OTHER -> "undefined"

highlightSentence(b, e, type, sid, op) ==
  Note("hl", op, "", type, b, e, sid, NoFocus, <<>>)

\* Diagnostic.create(range, message, Error, undefined, 'coqtop') per error
createDiagnostic(error) ==
  [b |-> error.b, e |-> error.e, message |-> error.message,
   severity |-> "Error", source |-> "coqtop"]

\* updateDiagnostics: the list rebuilt from stm.getErrors() and sent
updateDiagnostics(errs, op) ==
  << Note("diag", op, "", "", 0, 0, 0, NoFocus,
          [i \in 1..Len(errs) |-> createDiagnostic(errs[i])]) >>

\* updateComputingStatus: the time since startTime goes out with the status
\* through sendComputingStatus; no operation of the document calls it
updateComputingStatus(status, interval) ==
  Note("status", 0, "", status, 0, interval, 0, NoFocus, <<>>)

\* this.clientConsole.error(...): a line on the client's console
clientConsoleError(op) ==
  Note("log", op, "", "error", 0, 0, 0, NoFocus, <<>>)

onCoqStateStatusUpdate(b, e, status, sid, op) ==
  << highlightSentence(b, e, sentenceStatusToHighlightType(status), sid, op) >>

onClearSentence(b, e, sid, op) ==
  << highlightSentence(b, e, "Clear", sid, op) >>

onCoqStateError(b, e, sid, errs, op) ==
  << highlightSentence(b, e, "TacticFailure", sid, op) >>
  \o updateDiagnostics(errs, op)

\* ------------------------------------------------------------------ state
VARIABLES
  documentText,   \* CoqDocument.documentText
  version,        \* CoqDocument.version (0: not yet set)
  stmRef,         \* CoqDocument.stm: "inst" or "null"
  running,        \* stm.isRunning() of the current instance
  sentences,      \* the spine of the current STM, root first
  failure,        \* the error of the last failed add (virtual sentence)
  lock,           \* slot holding the STM's processing lock, 0 if free
  waiting,        \* slots whose STM call waits for the lock, oldest first
  events,         \* prover events of the current STM not yet handled
  stale,          \* events of an STM that resetCoq replaced, still arriving
  nextSid,        \* next state id the prover hands out
  ops,            \* the suspended operations, by slot
  out,            \* outputs of the last step, in the order produced
  lastDiag,       \* diagnostics list the client holds
  cleared,        \* state ids whose Clear highlight has been sent
  nOps,           \* inputs taken so far
  iter,           \* a command sequence a consumer steps on its own
  parsing,        \* history: per slot, the offsets its operation has had
                  \* highlighted as Parsing and no later highlight covers
  pair,           \* history: what the client saw before a stepForward that
                  \* nothing but a stepBackward has followed
  states,         \* LSP manager: the table of open documents (its uris)
  todo,           \* LSP manager: the events its loop waits for
  raised,         \* LSP manager: a handler has raised an exception
  requests,       \* LSP manager: input events taken from stdin so far
  dispatched,     \* LSP manager: the method dispatch_method ran last
  highlights,     \* editor client: what Highlights shows in the editors
  statusBar,      \* editor client: the state the StatusBar shows
  focused,        \* editor client: the StatusBar is shown (focus / unfocus)
  commands        \* editor client: the commands under way, by slot

vars == << documentText, version, stmRef, running, sentences, failure, lock,
           waiting,
           events, stale, nextSid, ops, out, lastDiag, cleared,
           nOps, iter, parsing, pair,
           states, todo, raised, requests, dispatched,
           highlights, statusBar, focused, commands >>

\* the document controller on the server
docVars == << documentText, version, stmRef, running, sentences, failure, lock,
              waiting, events, stale, nextSid, ops, out, lastDiag, cleared,
              nOps, iter, parsing, pair >>

\* the LSP manager
lspVars == << states, todo, raised, requests, dispatched >>

\* the document of the editor client
clientVars == << highlights, statusBar, focused, commands >>

Uris == {"u1", "u2"}

\* dispatch_method has not run
NoDispatch == [method |-> "", view |-> ""]

\* no LSP manager runs
NoLsp ==
  /\ states = {}
  /\ todo = [lsp |-> 0, dm |-> [u \in Uris |-> 0]]
  /\ raised = FALSE
  /\ requests = 0
  /\ dispatched = NoDispatch

ClientSlots == 1..2

\* ends: the parity of the number of commands that have ended in the slot
NoClientCommand == [kind |-> "", pc |-> "idle", ends |-> 0]

\* the editor client holds no CoqDocument: where the server is specified the
\* variables of the client stay at rest
NoClient ==
  /\ highlights = {}
  /\ statusBar = "ready"
  /\ focused = FALSE
  /\ commands = [c \in ClientSlots |-> NoClientCommand]

\* no command yielded yet
NoCommand == [text |-> <<>>, b |-> 0, e |-> 0]

\* no command sequence is being stepped
NoIter == [state |-> "none", begin |-> 0, end |-> NoEnd, endOffset |-> 0,
           currentOffset |-> 0, result |-> NoCommand]

\* no stepForward / stepBackward pair is being followed
NoPair == [stage |-> "none", sid |-> 0, focus |-> 0, diag |-> <<>>]

IdleOp == [kind |-> "idle", pc |-> "idle", tgt |-> 0, cur |-> 0, endOff |-> 0,
           cb |-> 0, ce |-> 0, ctext |-> <<>>, changes |-> <<>>,
           res |-> "none", rb |-> 0, re |-> 0, rfocus |-> NoFocus,
           cancelled |-> "", orphan |-> FALSE, mark |-> FALSE, ver |-> 0,
           adds |-> {}]

\* the statuses the prover reports for a sentence, in this order
StatusChain == << "Processed", "Complete" >>

\* ---------------------------------------------------- STM queries (spec)
Last(s) == s[Len(s)]

\* stm.getFocusedPosition(): the end of the tip, the origin on an empty spine
getFocusedPosition(sents) == IF sents = <<>> THEN 0 ELSE Last(sents).e

SentenceError(s) == [b |-> s.b, e |-> s.e, message |-> "syntax"]

\* stm.getErrors(): the errors of the spine's sentences, then the error of
\* the failed add
getErrors(sents, fail) ==
  LET errd == SelectSeq(sents, LAMBDA s : s.err)
  IN  [i \in 1..Len(errd) |-> SentenceError(errd[i])] \o fail

OnSpine(sents, sid) == \E i \in 1..Len(sents) : sents[i].sid = sid
IndexOf(sents, sid) == CHOOSE i \in 1..Len(sents) : sents[i].sid = sid

\* ------------------------------------------------------------------- init
\* the constructor: the text is stored, resetCoq creates the first STM
Init ==
  /\ documentText \in InitTexts
  /\ version = 0
  /\ stmRef = "inst"
  /\ running = TRUE
  /\ sentences = <<>>
  /\ failure = <<>>
  /\ lock = 0
  /\ waiting = <<>>
  /\ events = <<>>
  /\ stale = <<>>
  /\ nextSid = 1
  /\ ops = [o \in Slots |-> IdleOp]
  /\ out = <<>>
  /\ lastDiag = <<>>
  /\ cleared = {}
  /\ parsing = [o \in Slots |-> {}]
  /\ iter = NoIter
  /\ nOps = 0
  /\ pair = NoPair
  /\ NoLsp
  /\ NoClient


\* ---------------------------------------------------------------- outputs
DiagIdx(notes) == {i \in 1..Len(notes) : notes[i].t = "diag"}

\* what the client shows as Parsing for each slot after the highlights among
\* notes: a highlight replaces whatever was shown on its range
RECURSIVE Paint(_, _)
Paint(shown, notes) ==
  IF notes = <<>> THEN shown
  ELSE LET n == Head(notes)
           rng == n.b .. (n.e - 1)
       IN  Paint(IF n.t # "hl" THEN shown
                 ELSE [o \in Slots |->
                        IF n.style = "Parsing" /\ n.op = o
                        THEN shown[o] \cup rng ELSE shown[o] \ rng],
                 Tail(notes))

\* the step's outputs reach the client in order
Emit(notes) ==
  /\ iter' = iter
  /\ UNCHANGED << lspVars, clientVars >>
  /\ parsing' = Paint([o \in Slots |-> IF ops[o].pc = "idle" THEN {}
                                        ELSE parsing[o]], notes)
  /\ out' = notes
  /\ lastDiag' = IF DiagIdx(notes) = {} THEN lastDiag
                 ELSE notes[CHOOSE i \in DiagIdx(notes) :
                               \A j \in DiagIdx(notes) : j <= i].list
  /\ cleared' = cleared \cup
        {notes[i].sid : i \in {j \in 1..Len(notes) :
             notes[j].t = "hl" /\ notes[j].style = "Clear" /\ notes[j].sid > 0}}

Resp(o, kind, res, b, e, foc, early) ==
  Note("resp", o, kind, res, b, e, IF early THEN 1 ELSE 0, foc, <<>>)

\* ------------------------------------------------------- edits (code/spec)
ChangeDelta(c) == Len(c.text) - c.len

\* applyEditToDocument(begin, change)
applyEditToDocument(text, begin, change) ==
  substring(text, 0, begin) \o change.text
  \o substring(text, begin + change.rangeLength, Len(text))

\* textUtil.positionIsAfter on a single-line document
positionIsAfter(pos1, pos2) == pos1 > pos2

\* changes.sort((c1, c2) => positionIsAfter(c1.start, c2.start) ? -1 : 1):
\* a change that starts later comes first; the comparator never answers 0,
\* so the order of changes with the same start is the choice of the
\* engine's sort
sortedChanges(changes) ==
  {s \in {[i \in 1..Len(changes) |-> changes[p[i]]] :
             p \in Permutations(1..Len(changes))} :
      \A i, j \in 1..Len(s) : i < j => ~positionIsAfter(s[j].b, s[i].b)}

\* the loop of applyTextEdits over the sorted changes
RECURSIVE applySortedChanges(_, _)
applySortedChanges(text, changes) ==
  IF changes = <<>> THEN text
  ELSE applySortedChanges(
         applyEditToDocument(text, offsetAt(text, Head(changes).b),
                             [text |-> Head(changes).text,
                              rangeLength |-> Head(changes).len]),
         Tail(changes))

\* the changed range meets the range of sentence s (text put right behind
\* the terminator of s can undo the terminator, so the ends count)
Intersects(s, c) == c.b <= s.e /\ c.b + c.len >= s.b

BodyStart(s) == s.b + LeadingBlanks(s.text)

\* the change lies in the blanks in front of the body of s
InLead(s, c) == c.b >= s.b /\ c.b < s.e /\ c.b + c.len <= BodyStart(s)

\* the change only adds blanks behind s, or adds or removes blanks in front
\* of its body and leaves s separated from what precedes it
PassiveFor(s, c) ==
  /\ IsBlank(c.text)
  /\ \/ c.len = 0 /\ c.b = s.e
     \/ /\ InLead(s, c)
        /\ (s.b = 0 \/ LeadingBlanks(s.text) + ChangeDelta(c) >= 1)

Affected(sents, c) == {i \in 1..Len(sents) : Intersects(sents[i], c)}

IsPassive(sents, c) ==
  /\ IsBlank(c.text)
  /\ \A i \in Affected(sents, c) : PassiveFor(sents[i], c)

\* sentence s after change c that did not invalidate it
ShiftSentence(s, c) ==
  IF InLead(s, c)
  THEN [s EXCEPT !.e = s.e + ChangeDelta(c),
                 !.text = substring(s.text, 0, c.b - s.b) \o c.text
                          \o substring(s.text, c.b - s.b + c.len, Len(s.text))]
  ELSE IF c.b + c.len <= s.b
  THEN [s EXCEPT !.b = s.b + ChangeDelta(c), !.e = s.e + ChangeDelta(c)]
  ELSE s

ShiftAll(sents, c) == [i \in 1..Len(sents) |-> ShiftSentence(sents[i], c)]

\* applyChanges gets the whole sorted batch
AffectedBy(sents, cs) == UNION {Affected(sents, cs[i]) : i \in 1..Len(cs)}

PassiveBatch(sents, cs) == \A i \in 1..Len(cs) : IsPassive(sents, cs[i])

RECURSIVE ShiftBatch(_, _)
ShiftBatch(sents, cs) ==
  IF cs = <<>> THEN sents
  ELSE ShiftBatch(ShiftAll(sents, Head(cs)), Tail(cs))

\* the changes a client sends: a blank typed in front of the first or of the
\* second sentence, a letter typed at the origin, or a character removed
\* (the blank between the sentences, the last full stop)
EditOffsets == {0, 3}
Changes(text) ==
  {[b |-> k, len |-> 0, text |-> <<" ">>] : k \in EditOffsets}
  \cup {[b |-> 0, len |-> 0, text |-> <<"a">>]}
  \cup {[b |-> k, len |-> 1, text |-> <<>>] : k \in {2, 4}}

\* the offsets a client sends with interpretToPoint
Targets == {0, 2}

\* --------------------------------------------------- STM instances (code)
Forward == {"stepForward", "interpretToPoint", "interpretToEnd"}
Commands == Forward \cup {"stepBackward"}

InStm == {"call", "add", "editAt", "goalCall", "goal", "query"}

\* operations inside a call of an STM that is shut down, dies or is
\* replaced: their call is cancelled; the result of a cancelled call
\* carries the focus that STM had
Orphan(f) ==
  [o \in Slots |-> IF f[o].pc \in InStm /\ ~f[o].orphan
                   THEN [f[o] EXCEPT !.orphan = TRUE,
                                     !.rfocus = getFocusedPosition(sentences)]
                   ELSE f[o]]

\* events the replaced STM still has to deliver, with the ranges it knows
StaleOf(evs, sents) ==
  LET live == SelectSeq(evs, LAMBDA ev : OnSpine(sents, ev.sid))
  IN  [i \in 1..Len(live) |->
         [sid |-> live[i].sid, status |-> live[i].status,
          b |-> sents[IndexOf(sents, live[i].sid)].b,
          e |-> sents[IndexOf(sents, live[i].sid)].e]]

\* resetCoq: shut the running STM down without awaiting it, then install a
\* new CoqStateMachine
resetCoq ==
  /\ stmRef' = "inst"
  /\ running' = TRUE
  /\ sentences' = <<>>
  /\ failure' = <<>>
  /\ lock' = 0
  /\ events' = <<>>
  /\ stale' = stale \o StaleOf(events, sentences)

StmUnchanged ==
  UNCHANGED << stmRef, running, sentences, failure, lock, events, stale >>

NeedStm == stmRef = "null" \/ ~running

\* assertStm looking only for a missing STM, not for one that has stopped
assertStm_nullOnly(o, rec) ==
  IF stmRef = "null"
  THEN /\ resetCoq
       /\ waiting' = << o >>
       /\ ops' = [Orphan(ops) EXCEPT ![o] = rec]
  ELSE /\ StmUnchanged
       /\ waiting' = Append(waiting, o)
       /\ ops' = [ops EXCEPT ![o] = rec]

\* assertStm, followed by the operation in slot o calling the STM, where
\* calls are served in the order made
assertStm(o, rec) ==
  IF NeedStm
  THEN /\ resetCoq
       /\ waiting' = << o >>
       /\ ops' = [Orphan(ops) EXCEPT ![o] = rec]
  ELSE /\ StmUnchanged
       /\ waiting' = Append(waiting, o)
       /\ ops' = [ops EXCEPT ![o] = rec]

Outstanding == {"add", "editAt", "goal", "query"}   \* a prover request is in flight

\* a change that is not passive finds a prover call in flight
CancelPending(o) ==
  /\ ops[o].pc = "call" /\ ops[o].kind = "applyTextEdits" /\ ~ops[o].orphan
  /\ running
  /\ ~PassiveBatch(sentences, ops[o].changes)
  /\ lock # 0 /\ ops[lock].pc \in Outstanding /\ ops[lock].cancelled = ""

\* The controller runs on one thread.  Once an awaited call has resolved,
\* or the STM's lock is free for a waiting call, the continuation is a
\* queued microtask: it runs before the next client request, prover
\* response or prover event is taken up.
Ready(o) ==
  \/ ops[o].pc \in {"ret", "goalRet", "outerRet", "shutdownRet", "closeRet"}
  \/ ops[o].pc \in InStm /\ ops[o].orphan
  \/ /\ ops[o].pc \in {"call", "goalCall"} /\ lock = 0
     /\ waiting # <<>> /\ Head(waiting) = o
  \/ CancelPending(o)

Quiet == \A o \in Slots : ~Ready(o)

\* a client request is taken up, in the lowest free slot, when no
\* continuation is queued and the history may grow
FreeSlot(o) ==
  /\ nOps < MaxOps
  /\ ops[o].pc = "idle"
  /\ \A p \in Slots : p < o => ops[p].pc # "idle"
  /\ Quiet

\* the state id of the tip, 0 for the root
TipSid(sents) == IF sents = <<>> THEN 0 ELSE sents[Len(sents)].sid

\* a stepForward arriving while nothing is suspended or waiting to be handled
\* and the prover runs starts a pair: the tip, the focus and the client's
\* diagnostics before it are recorded
BeforePair ==
  IF /\ \A p \in Slots : ops[p].pc = "idle"
     /\ ~NeedStm /\ events = <<>> /\ stale = <<>>
  THEN [stage |-> "fwd", sid |-> TipSid(sentences),
        focus |-> getFocusedPosition(sentences), diag |-> lastDiag]
  ELSE NoPair

\* ------------------------------------------ client requests (entry points)
stepForward(o) ==
  /\ FreeSlot(o)
  /\ assertStm(o, [IdleOp EXCEPT !.kind = "stepForward", !.pc = "call"])
  /\ nOps' = nOps + 1
  /\ Emit(<<>>)
  /\ UNCHANGED << documentText, version, nextSid >>
  /\ pair' = BeforePair

stepBackward(o) ==
  /\ FreeSlot(o)
  /\ assertStm(o, [IdleOp EXCEPT !.kind = "stepBackward", !.pc = "call"])
  /\ nOps' = nOps + 1
  /\ Emit(<<>>)
  /\ UNCHANGED << documentText, version, nextSid >>
  /\ pair' = IF pair.stage = "fwdDone" THEN [pair EXCEPT !.stage = "back"]
              ELSE NoPair

\* the Parsing highlight from the focus (of the STM assertStm left) to pos
interpretToPoint(o, offset) ==
  /\ FreeSlot(o)
  /\ assertStm(o, [IdleOp EXCEPT !.kind = "interpretToPoint", !.pc = "call",
                                 !.tgt = positionAt(documentText, offset)])
  /\ nOps' = nOps + 1
  /\ Emit(<< Note("hl", o, "", "Parsing",
                  IF NeedStm THEN 0 ELSE getFocusedPosition(sentences),
                  positionAt(documentText, offset), 0, NoFocus, <<>>) >>)
  /\ UNCHANGED << documentText, version, nextSid >>
  /\ pair' = NoPair

\* interpretToEnd runs interpretToPoint(documentText.length) inside its own
\* try/finally
interpretToEnd(o) ==
  /\ FreeSlot(o)
  /\ assertStm(o, [IdleOp EXCEPT !.kind = "interpretToEnd", !.pc = "call",
                                 !.tgt = positionAt(documentText, Len(documentText))])
  /\ nOps' = nOps + 1
  /\ Emit(<< Note("hl", o, "", "Parsing",
                  IF NeedStm THEN 0 ELSE getFocusedPosition(sentences),
                  positionAt(documentText, Len(documentText)), 0, NoFocus, <<>>) >>)
  /\ UNCHANGED << documentText, version, nextSid >>
  /\ pair' = NoPair

getGoal(o) ==
  /\ FreeSlot(o)
  /\ nOps' = nOps + 1
  /\ IF NeedStm
     THEN /\ Emit(<< Resp(o, "getGoal", "not-running", 0, 0, NoFocus, TRUE) >>)
          /\ UNCHANGED << ops, waiting >>
     ELSE /\ Emit(<<>>)
          /\ waiting' = Append(waiting, o)
          /\ ops' = [ops EXCEPT ![o] = [IdleOp EXCEPT !.kind = "getGoal",
                                                      !.pc = "goalCall"]]
  /\ StmUnchanged
  /\ UNCHANGED << documentText, version, nextSid >>
  /\ pair' = NoPair


\* the version a client sends with its next batch: one more than it sent
\* with the batch before
newVersion ==
  version + 1 + Cardinality({p \in Slots : ops[p].kind = "applyTextEdits"})

\* applyTextEdits changing the text before stm.applyChanges is awaited
applyTextEdits_textFirst(o, changes, nv) ==
  /\ FreeSlot(o)
  /\ \E sorted \in sortedChanges(changes) :
     /\ nOps' = nOps + 1
     /\ documentText' = applySortedChanges(documentText, sorted)
     /\ version' = nv
     /\ IF stmRef = "null"
        THEN UNCHANGED << ops, waiting >>
        ELSE /\ waiting' = Append(waiting, o)
             /\ ops' = [p \in Slots |->
                   IF p = o
                   THEN [IdleOp EXCEPT !.kind = "applyTextEdits", !.pc = "call",
                                       !.changes = sorted, !.ver = nv]
                   ELSE [ops[p] EXCEPT !.mark = (/\ ops[p].pc \in Outstanding
                                                 /\ ~ops[p].orphan)]]
     /\ Emit(IF stmRef = "null" THEN << clientConsoleError(o) >> ELSE <<>>)
     /\ StmUnchanged
     /\ UNCHANGED nextSid
     /\ pair' = NoPair

\* applyTextEdits: the changes are sorted, then stm.applyChanges is awaited
\* inside try/catch; with no STM the call throws at once, the error is
\* logged and the rest of the handler runs in the same turn
applyTextEdits(o, changes, nv) ==
  /\ FreeSlot(o)
  /\ \E sorted \in sortedChanges(changes) :
     /\ nOps' = nOps + 1
     /\ IF stmRef = "null"
        THEN /\ documentText' = applySortedChanges(documentText, sorted)
             /\ version' = nv
             /\ UNCHANGED << ops, waiting >>
        ELSE /\ waiting' = Append(waiting, o)
             /\ ops' = [p \in Slots |->
                   IF p = o
                   THEN [IdleOp EXCEPT !.kind = "applyTextEdits", !.pc = "call",
                                       !.changes = sorted, !.ver = nv]
                   ELSE [ops[p] EXCEPT !.mark = (/\ ops[p].pc \in Outstanding
                                                 /\ ~ops[p].orphan)]]
             /\ UNCHANGED << documentText, version >>
     /\ Emit(IF stmRef = "null" THEN << clientConsoleError(o) >> ELSE <<>>)
     /\ StmUnchanged
     /\ UNCHANGED nextSid
     /\ pair' = NoPair

\* the client's reset command
resetCoqRequest ==
  /\ nOps < MaxOps
  /\ Quiet
  /\ nOps' = nOps + 1
  /\ resetCoq
  /\ ops' = Orphan(ops)
  /\ Emit(<<>>)
  /\ UNCHANGED << documentText, version, nextSid >>
  /\ waiting' = <<>>
  /\ pair' = NoPair

\* quitCoq up to `await this.stm.shutdown()`
quitCoq(o) ==
  /\ FreeSlot(o)
  /\ nOps' = nOps + 1
  /\ IF NeedStm
     THEN /\ Emit(<< Resp(o, "quitCoq", "done", 0, 0, NoFocus, TRUE) >>)
          /\ UNCHANGED << ops, running, lock, waiting >>
     ELSE /\ Emit(<<>>)
          /\ running' = FALSE
          /\ lock' = 0
          /\ waiting' = <<>>
          /\ ops' = [Orphan(ops) EXCEPT ![o] = [IdleOp EXCEPT !.kind = "quitCoq",
                                                           !.pc = "shutdown"]]
  /\ UNCHANGED << stmRef, sentences, failure, events, stale,
                  documentText, version, nextSid >>
  /\ pair' = NoPair

\* the shutdown that quitCoq or close awaits has ended: the promise is
\* settled, the continuation is queued
shutdownSettles(o) ==
  /\ ops[o].pc \in {"shutdown", "closing"}
  /\ ops' = [ops EXCEPT ![o].pc = IF ops[o].pc = "shutdown" THEN "shutdownRet"
                                  ELSE "closeRet"]
  /\ Emit(<<>>)
  /\ StmUnchanged
  /\ UNCHANGED << documentText, version, nextSid, nOps, waiting, pair >>

\* quitCoq after the shutdown: `this.stm.dispose(); this.stm = null`, on
\* whatever this.stm is by now; without an STM dispose is called on null
\* and quitCoq throws
quitCoqDone(o) ==
  /\ ops[o].pc = "shutdownRet"
  /\ IF stmRef = "null"
     THEN /\ ops' = [ops EXCEPT ![o] = IdleOp]
          /\ Emit(<< Resp(o, "quitCoq", "throw", 0, 0, NoFocus, FALSE) >>)
          /\ StmUnchanged
          /\ UNCHANGED waiting
     ELSE /\ stmRef' = "null"
          /\ running' = FALSE
          /\ sentences' = <<>>
          /\ failure' = <<>>
          /\ events' = <<>>
          /\ lock' = 0
          /\ ops' = [Orphan(ops) EXCEPT ![o] = IdleOp]
          /\ Emit(<< Resp(o, "quitCoq", "done", 0, 0, NoFocus, FALSE) >>)
          /\ UNCHANGED stale
          /\ waiting' = <<>>
  /\ UNCHANGED << documentText, version, nextSid, nOps >>
  /\ UNCHANGED pair

\* close up to `await this.stm.shutdown()`; without an STM the call throws
close(o) ==
  /\ FreeSlot(o)
  /\ nOps' = nOps + 1
  /\ IF stmRef = "null"
     THEN /\ Emit(<< Resp(o, "close", "throw", 0, 0, NoFocus, TRUE) >>)
          /\ UNCHANGED << ops, running, lock, waiting >>
     ELSE /\ Emit(<<>>)
          /\ running' = FALSE
          /\ lock' = 0
          /\ waiting' = <<>>
          /\ ops' = [Orphan(ops) EXCEPT ![o] = [IdleOp EXCEPT !.kind = "close",
                                                           !.pc = "closing"]]
  /\ UNCHANGED << stmRef, sentences, failure, events, stale,
                  documentText, version, nextSid >>
  /\ pair' = NoPair

\* close after the shutdown: the result is returned, the STM is kept
closeDone(o) ==
  /\ ops[o].pc = "closeRet"
  /\ ops' = [ops EXCEPT ![o] = IdleOp]
  /\ Emit(<< Resp(o, "close", "done", 0, 0, NoFocus, FALSE) >>)
  /\ StmUnchanged
  /\ UNCHANGED << documentText, version, nextSid, nOps, waiting, pair >>

\* interrupt: nothing without a running STM, otherwise stm.interrupt();
\* in the STM the pending stepForward / interpretToPoint calls, the one
\* whose request the prover holds and those waiting to be served, observe
\* the cancellation
interrupt ==
  /\ nOps < MaxOps
  /\ Quiet
  /\ nOps' = nOps + 1
  /\ ops' = IF NeedStm THEN ops
            ELSE [o \in Slots |->
                    IF /\ ops[o].kind \in Forward
                       /\ ops[o].pc \in {"call", "add", "editAt"}
                       /\ ~ops[o].orphan /\ ops[o].cancelled = ""
                    THEN [ops[o] EXCEPT !.cancelled = "interrupt"]
                    ELSE ops[o]]
  /\ Emit(<<>>)
  /\ StmUnchanged
  /\ UNCHANGED << documentText, version, nextSid >>
  /\ UNCHANGED waiting
  /\ pair' = NoPair

\* ------------------------------------------------------- STM calls (spec)
NewSentence(sid, b, e, text) ==
  [sid |-> sid, b |-> b, e |-> e, text |-> text, status |-> "Parsed",
   rank |-> 0, err |-> FALSE]

\* the first command of a fresh iterator bound to the focus
FirstCommand(text, sents, end) ==
  LET begin == getFocusedPosition(sents)
      endOffset == genEndOffset(text, end)
      cur == offsetAt(text, begin)
      r == commandSequenceGenerator(text, cur, endOffset)
  IN  [r EXCEPT !.ok = (cur < endOffset /\ r.ok)] @@ [endOff |-> endOffset]


Resolve(op, res, b, e, foc) ==
  [op EXCEPT !.pc = IF op.pc \in {"goalCall", "goal"} THEN "goalRet" ELSE "ret",
             !.res = res, !.rb = b, !.re = e, !.rfocus = foc,
             !.mark = FALSE]

\* stepForward / stepBackward / interpretToPoint of the STM once it holds
\* the lock, up to its first prover request; a command about to be added is
\* reported as Parsed; a call cancelled while it waited resolves as
\* interrupted
stmBegin(o) ==
  LET op == ops[o]
      foc == getFocusedPosition(sentences)
      end == IF op.kind = "stepForward" THEN NoEnd ELSE op.tgt
      r == FirstCommand(documentText, sentences, end)
      fits == r.ok /\ (op.kind = "stepForward" \/ r.e <= op.tgt)
      back == op.kind = "stepBackward"
              \/ (op.kind # "stepForward" /\ op.tgt < foc)
      keep == IF op.kind = "stepBackward" THEN Len(sentences) - 1
              ELSE Cardinality({i \in 1..Len(sentences) : sentences[i].e <= op.tgt})
  IN
  /\ op.pc = "call" /\ op.kind \in Commands /\ ~op.orphan
  /\ lock = 0
  /\ waiting # <<>> /\ Head(waiting) = o
  /\ waiting' = Tail(waiting)
  /\ IF op.cancelled # ""
     THEN /\ ops' = [ops EXCEPT ![o] = Resolve(op, "interrupted", 0, 0, foc)]
          /\ UNCHANGED << lock, failure >>
     ELSE IF back
     THEN IF sentences = <<>>
          THEN /\ ops' = [ops EXCEPT ![o] = Resolve(op, "none", 0, 0, NoFocus)]
               /\ UNCHANGED << lock, failure >>
          ELSE /\ ops' = [ops EXCEPT ![o] = [op EXCEPT !.pc = "editAt", !.cb = keep]]
               /\ lock' = o
               /\ UNCHANGED failure
     ELSE IF fits
          THEN /\ ops' = [ops EXCEPT ![o] =
                    [op EXCEPT !.pc = "add", !.cb = r.b, !.ce = r.e,
                               !.ctext = r.text, !.cur = r.next,
                               !.endOff = r.endOff]]
               /\ lock' = o
               /\ failure' = <<>>
          ELSE /\ ops' = [ops EXCEPT ![o] = Resolve(op, "none", 0, 0, NoFocus)]
               /\ UNCHANGED << lock, failure >>
  /\ Emit(IF op.cancelled = "" /\ ~back /\ fits
          THEN onCoqStateStatusUpdate(r.b, r.e, "Parsed", 0, o)
          ELSE <<>>)
  /\ UNCHANGED << stmRef, running, sentences, events, stale,
                  documentText, version, nextSid, nOps >>
  /\ UNCHANGED pair

\* the answers an outstanding add can get: once the call is cancelled (by
\* interrupt or by an edit) the prover acknowledges the interrupt
AddOutcomes(op) ==
  IF op.cancelled # "" THEN {"interrupted"} ELSE {"ok", "fail", "throw"}

\* the prover answers an add
proverAddResp(o, outcome) ==
  LET op == ops[o]
      foc == getFocusedPosition(sentences)
      added == Append(sentences, NewSentence(nextSid, op.cb, op.ce, op.ctext))
      r == commandSequenceGenerator(documentText, op.cur, op.endOff)
      more == op.kind # "stepForward" /\ r.ok /\ r.e <= op.tgt
      err == << [b |-> op.cb, e |-> op.ce, message |-> "syntax"] >>
  IN
  /\ Quiet
  /\ op.pc = "add" /\ ~op.orphan
  /\ outcome \in AddOutcomes(op)
  /\ CASE outcome = "ok" ->
            /\ sentences' = added
            /\ nextSid' = nextSid + 1
            /\ IF more
               THEN /\ ops' = [ops EXCEPT ![o] =
                         [op EXCEPT !.cb = r.b, !.ce = r.e, !.ctext = r.text,
                                    !.cur = r.next, !.mark = FALSE,
                                    !.adds = @ \cup {nextSid}]]
                    /\ UNCHANGED lock
                    /\ Emit(onCoqStateStatusUpdate(r.b, r.e, "Parsed", 0, o))
               ELSE /\ ops' = [ops EXCEPT ![o] =
                         [Resolve(op, "none", 0, 0, NoFocus)
                          EXCEPT !.adds = @ \cup {nextSid}]]
                    /\ lock' = 0
                    /\ Emit(<<>>)
            /\ UNCHANGED failure
       [] outcome = "fail" ->
            /\ failure' = err
            /\ ops' = [ops EXCEPT ![o] = Resolve(op, "failure", op.cb, op.ce, foc)]
            /\ lock' = 0
            /\ Emit(onClearSentence(op.cb, op.ce, 0, o)
                    \o onCoqStateError(op.cb, op.ce, 0, getErrors(sentences, err), o))
            /\ UNCHANGED << sentences, nextSid >>
       [] outcome = "throw" ->
            /\ ops' = [ops EXCEPT ![o] = Resolve(op, "throw", 0, 0, NoFocus)]
            /\ lock' = 0
            /\ Emit(<<>>)
            /\ UNCHANGED << sentences, nextSid, failure >>
       [] outcome = "interrupted" ->
            /\ ops' = [ops EXCEPT ![o] = Resolve(op, "interrupted", 0, 0, foc)]
            /\ lock' = 0
            /\ Emit(<<>>)
            /\ UNCHANGED << sentences, nextSid, failure >>
  /\ UNCHANGED << stmRef, running, events, stale,
                  documentText, version, nOps >>
  /\ UNCHANGED waiting
  /\ UNCHANGED pair

\* Clear reports for the sentences after the first keep ones
ClearAfter(sents, keep, o) ==
  LET RECURSIVE go(_)
      go(i) == IF i > Len(sents) THEN <<>>
               ELSE onClearSentence(sents[i].b, sents[i].e, sents[i].sid, o)
                    \o go(i + 1)
  IN  go(keep + 1)

\* the prover answers an edit_at: the spine is truncated, the removed
\* sentences are reported cleared; applyChanges then shifts the survivors;
\* the call keeps the range it has cleared
proverEditAtResp(o) ==
  LET op == ops[o]
      kept == SubSeq(sentences, 1, op.cb)
  IN
  /\ Quiet
  /\ op.pc = "editAt" /\ ~op.orphan
  /\ IF op.cancelled # ""
     THEN /\ ops' = [ops EXCEPT ![o] =
                Resolve(op, "interrupted", 0, 0, getFocusedPosition(sentences))]
          /\ Emit(<<>>)
          /\ UNCHANGED << sentences, failure >>
     ELSE /\ sentences' = IF op.kind = "applyTextEdits"
                          THEN ShiftBatch(kept, op.changes) ELSE kept
          /\ failure' = <<>>
          /\ ops' = [ops EXCEPT ![o] =
                Resolve(op, "none", sentences[op.cb + 1].b, Last(sentences).e,
                        NoFocus)]
          /\ Emit(ClearAfter(sentences, op.cb, o))
  /\ lock' = 0
  /\ UNCHANGED << stmRef, running, events, stale,
                  documentText, version, nextSid, nOps >>
  /\ UNCHANGED waiting
  /\ UNCHANGED pair

\* applyChanges: a change that is not passive cancels the prover call in
\* flight
applyChangesCancel(o) ==
  /\ CancelPending(o)
  /\ ops' = [ops EXCEPT ![lock].cancelled = "edit"]
  /\ Emit(<<>>)
  /\ StmUnchanged
  /\ UNCHANGED << documentText, version, nextSid, nOps >>
  /\ UNCHANGED waiting
  /\ UNCHANGED pair

\* applyChanges once no other call is in flight: rewind before the first
\* invalidated sentence, or only shift the ranges
applyChanges(o) ==
  LET op == ops[o]
      aff == AffectedBy(sentences, op.changes)
      first == CHOOSE i \in aff : \A j \in aff : i <= j
  IN
  /\ op.pc = "call" /\ op.kind = "applyTextEdits" /\ ~op.orphan
  /\ lock = 0
  /\ waiting # <<>> /\ Head(waiting) = o
  /\ waiting' = Tail(waiting)
  /\ IF ~running
     THEN /\ ops' = [ops EXCEPT ![o] = Resolve(op, "none", 0, 0, NoFocus)]
          /\ UNCHANGED << sentences, lock >>
     ELSE IF aff # {} /\ ~PassiveBatch(sentences, op.changes)
     THEN /\ ops' = [ops EXCEPT ![o] = [op EXCEPT !.pc = "editAt", !.cb = first - 1]]
          /\ lock' = o
          /\ UNCHANGED sentences
     ELSE /\ sentences' = ShiftBatch(sentences, op.changes)
          /\ ops' = [ops EXCEPT ![o] = Resolve(op, "none", 0, 0, NoFocus)]
          /\ UNCHANGED lock
  /\ Emit(<<>>)
  /\ UNCHANGED << stmRef, running, failure, events, stale,
                  documentText, version, nextSid, nOps >>
  /\ UNCHANGED pair

\* getGoal sending its request without waiting for the lock
stmGetGoal_noLock(o) ==
  /\ ops[o].pc = "goalCall" /\ ~ops[o].orphan
  /\ running
  /\ ops' = [ops EXCEPT ![o].pc = "goal"]
  /\ lock' = o
  /\ Emit(<<>>)
  /\ UNCHANGED << stmRef, running, sentences, failure, events, stale,
                  documentText, version, nextSid, nOps >>
  /\ waiting' = SelectSeq(waiting, LAMBDA p : p # o)
  /\ UNCHANGED pair

\* stm.getGoal up to its prover request
stmGetGoal(o) ==
  /\ ops[o].pc = "goalCall" /\ ~ops[o].orphan
  /\ lock = 0
  /\ waiting # <<>> /\ Head(waiting) = o
  /\ waiting' = Tail(waiting)
  /\ IF running
     THEN /\ ops' = [ops EXCEPT ![o].pc = "goal"]
          /\ lock' = o
     ELSE /\ ops' = [ops EXCEPT ![o] = Resolve(ops[o], "not-running", 0, 0, NoFocus)]
          /\ UNCHANGED lock
  /\ Emit(<<>>)
  /\ UNCHANGED << stmRef, running, sentences, failure, events, stale,
                  documentText, version, nextSid, nOps >>
  /\ UNCHANGED pair

GoalOutcomes == {"proof-view", "no-proof", "failure", "throw"}

\* the prover answers the goal request
proverGoalResp(o, outcome) ==
  /\ Quiet
  /\ ops[o].pc = "goal" /\ ~ops[o].orphan
  /\ outcome \in (IF ops[o].cancelled # "" THEN {"interrupted"} ELSE GoalOutcomes)
  /\ ops' = [ops EXCEPT ![o] = Resolve(ops[o], outcome, 0, 0, NoFocus)]
  /\ lock' = 0
  /\ Emit(<<>>)
  /\ UNCHANGED << stmRef, running, sentences, failure, events, stale,
                  documentText, version, nextSid, nOps >>
  /\ UNCHANGED waiting
  /\ UNCHANGED pair

\* a call into an STM that was shut down, died or was replaced resolves
\* without touching any spine
orphanResolve(o) ==
  /\ ops[o].pc \in InStm /\ ops[o].orphan
  /\ ops' = [ops EXCEPT ![o] =
        [Resolve(ops[o], IF ops[o].pc \in Outstanding THEN "interrupted"
                         ELSE "not-running", 0, 0,
                 IF ops[o].pc \in Outstanding THEN ops[o].rfocus ELSE NoFocus)
         EXCEPT !.orphan = FALSE]]
  /\ Emit(<<>>)
  /\ StmUnchanged
  /\ UNCHANGED << documentText, version, nextSid, nOps >>
  /\ UNCHANGED waiting
  /\ UNCHANGED pair


\* ------------------------------------------- controller continuations (code)
\* try { ... return result } finally { this.updateDiagnostics() }: the
\* diagnostics go out, then the result is delivered
finallyThenReturn(diags, resp) == diags \o << resp >>

\* toGoal without the branch of the interrupted result
toGoal_interruptedBare(type, foc) ==
  IF type \in {"not-running", "interrupted"} THEN NoFocus ELSE foc

\* toGoal: every result but not-running gets the STM's focus
toGoal(type, foc) == IF type = "not-running" THEN NoFocus ELSE foc

\* the operation in slot o leaves the function that awaited the STM with
\* the result res: a command returns it to the client; for interpretToEnd
\* the function is its inner interpretToPoint, whose promise is settled,
\* and interpretToEnd resumes in a later turn of the microtask queue
Leave(o, res) ==
  IF ops[o].kind = "interpretToEnd"
  THEN [ops EXCEPT ![o] = [ops[o] EXCEPT !.pc = "outerRet", !.res = res.style,
                                         !.rb = res.b, !.re = res.e,
                                         !.rfocus = res.focus]]
  ELSE [ops EXCEPT ![o] = IdleOp]

\* what the client is sent when the function of Leave ends
LeaveNotes(o, diags, res) ==
  IF ops[o].kind = "interpretToEnd" THEN diags
  ELSE finallyThenReturn(diags, res)

\* `const error = await this.stm.stepForward(...); if(error) return error`:
\* whatever the STM call returns is an error (stepBackward drops the
\* result); an exception leaves the try block as well
errorReturned(op) ==
  op.res = "throw" \/ (op.res # "none" /\ op.kind # "stepBackward")

\* after `await this.stm.stepForward(...)` (stepBackward, interpretToPoint):
\* an error result is returned as it is, otherwise the goal is requested
\* with a new call of stm.getGoal(), which has nothing of the call before
\* it: the cancellation of a stepBackward ended with the result dropped
afterStmCall(o) ==
  LET op == ops[o]
      errs == getErrors(sentences, failure)
      Thrown == Resp(o, op.kind, "throw", 0, 0, NoFocus, FALSE)
      Returns == Resp(o, op.kind, op.res, op.rb, op.re, op.rfocus, FALSE)
  IN
  /\ op.pc = "ret" /\ op.kind \in Commands
  /\ IF stmRef = "null"
     THEN /\ Emit(LeaveNotes(o, <<>>, Thrown))
          /\ ops' = Leave(o, Thrown)
          /\ UNCHANGED waiting
     ELSE IF errorReturned(op)
     THEN /\ Emit(LeaveNotes(o, updateDiagnostics(errs, o), Returns))
          /\ ops' = Leave(o, Returns)
          /\ UNCHANGED waiting
     ELSE /\ Emit(<<>>)
          /\ ops' = [ops EXCEPT ![o] = [op EXCEPT !.pc = "goalCall", !.res = "none",
                                                  !.cancelled = ""]]
          /\ waiting' = Append(waiting, o)
  /\ StmUnchanged
  /\ UNCHANGED << documentText, version, nextSid, nOps >>
  /\ pair' = IF \/ stmRef = "null" \/ errorReturned(op)
                 \/ /\ op.kind = "stepForward" /\ pair.stage = "fwd"
                    /\ TipSid(sentences) = pair.sid
              THEN NoPair ELSE pair

\* after `await this.stm.getGoal()`: toGoal, the finally block, the result
afterGetGoal(o) ==
  LET op == ops[o]
      errs == getErrors(sentences, failure)
      Thrown == Resp(o, op.kind, "throw", 0, 0, NoFocus, FALSE)
      Returns == Resp(o, op.kind, op.res, 0, 0,
                      IF op.res = "throw" THEN NoFocus
                      ELSE toGoal(op.res, getFocusedPosition(sentences)), FALSE)
  IN
  /\ op.pc = "goalRet"
  /\ IF stmRef = "null"
     THEN /\ Emit(LeaveNotes(o, <<>>, Thrown))
          /\ ops' = Leave(o, Thrown)
     ELSE /\ Emit(LeaveNotes(o, updateDiagnostics(errs, o), Returns))
          /\ ops' = Leave(o, Returns)
  /\ StmUnchanged
  /\ UNCHANGED << documentText, version, nextSid, nOps >>
  /\ UNCHANGED waiting
  /\ pair' = IF stmRef = "null" THEN NoPair
              ELSE IF pair.stage = "fwd" /\ op.kind = "stepForward"
              THEN [pair EXCEPT !.stage = "fwdDone"]
              ELSE IF pair.stage = "back" /\ op.kind = "stepBackward"
              THEN [pair EXCEPT !.stage = "done"]
              ELSE pair

\* interpretToEnd after `await this.interpretToPoint(...)`: what
\* interpretToPoint returned is an object, so `if(error) return error`
\* returns it, and what it threw is thrown on; the finally block of
\* interpretToEnd sends the diagnostics of the STM as it is now
afterInterpretToPoint(o) ==
  LET op == ops[o]
      errs == getErrors(sentences, failure)
  IN
  /\ op.pc = "outerRet"
  /\ IF stmRef = "null"
     THEN Emit(<< Resp(o, op.kind, "throw", 0, 0, NoFocus, FALSE) >>)
     ELSE Emit(finallyThenReturn(updateDiagnostics(errs, o),
                 Resp(o, op.kind, op.res, op.rb, op.re, op.rfocus, FALSE)))
  /\ ops' = [ops EXCEPT ![o] = IdleOp]
  /\ StmUnchanged
  /\ UNCHANGED << documentText, version, nextSid, nOps >>
  /\ UNCHANGED waiting
  /\ pair' = IF stmRef = "null" THEN NoPair ELSE pair

\* stm.applyChanges throws before it has changed anything; what it rejects
\* with is a value that has toString (an Error, a string: "throw"), or
\* undefined (`reject()`, `throw undefined`: "throwUndefined")
applyChangesThrows(o, reason) ==
  /\ ops[o].pc = "call" /\ ops[o].kind = "applyTextEdits" /\ ~ops[o].orphan
  /\ running
  /\ lock = 0
  /\ waiting # <<>> /\ Head(waiting) = o
  /\ waiting' = Tail(waiting)
  /\ ops' = [ops EXCEPT ![o] = Resolve(ops[o], reason, 0, 0, NoFocus)]
  /\ Emit(<<>>)
  /\ StmUnchanged
  /\ UNCHANGED << documentText, version, nextSid, nOps >>
  /\ UNCHANGED pair

\* applyTextEdits after `await this.stm.applyChanges(...)`: an exception is
\* caught and logged with err.toString(), every change is applied to the
\* text, then the version is set; when what was thrown is undefined,
\* err.toString() throws inside the catch block and applyTextEdits ends
\* there, with nothing logged and the text and the version as they were
afterApplyChanges(o) ==
  /\ ops[o].pc = "ret" /\ ops[o].kind = "applyTextEdits"
  /\ IF ops[o].res = "throwUndefined"
     THEN /\ UNCHANGED << documentText, version >>
          /\ Emit(<< Resp(o, "applyTextEdits", "throw", 0, 0, NoFocus, FALSE) >>)
     ELSE /\ documentText' = applySortedChanges(documentText, ops[o].changes)
          /\ version' = ops[o].ver
          /\ Emit(IF ops[o].res = "throw" THEN << clientConsoleError(o) >>
                  ELSE <<>>)
  /\ ops' = [ops EXCEPT ![o] = IdleOp]
  /\ StmUnchanged
  /\ UNCHANGED << nextSid, nOps >>
  /\ UNCHANGED waiting
  /\ UNCHANGED pair

\* ------------------------------------------------------ prover events
\* the STM calls its message callback: onCoqMessage sends the message on
onCoqMessage(level) ==
  /\ nOps < MaxOps
  /\ stmRef = "inst" /\ running
  /\ Quiet
  /\ nOps' = nOps + 1
  /\ Emit(<< Note("msg", 0, "", level, 0, 0, 0, NoFocus, <<>>) >>)
  /\ StmUnchanged
  /\ UNCHANGED << documentText, version, nextSid, ops, waiting >>
  /\ pair' = NoPair

\* the STM calls its ltacProfResults callback: onCoqStateLtacProf sends the
\* results on
onCoqStateLtacProf ==
  /\ nOps < MaxOps
  /\ stmRef = "inst" /\ running
  /\ Quiet
  /\ nOps' = nOps + 1
  /\ Emit(<< Note("ltacProf", 0, "", "", 0, 0, 0, NoFocus, <<>>) >>)
  /\ StmUnchanged
  /\ UNCHANGED << documentText, version, nextSid, ops, waiting >>
  /\ pair' = NoPair

\* the prover reports on a sentence it holds: its next status, or an error
proverEmit(i, isError) ==
  /\ nOps < MaxOps
  /\ stmRef = "inst" /\ running
  /\ Quiet
  /\ nOps' = nOps + 1
  /\ i \in 1..Len(sentences)
  /\ IF isError
     THEN /\ sentences[i].rank <= Len(StatusChain)
          /\ events' = Append(events, [sid |-> sentences[i].sid, status |-> "Error"])
          /\ sentences' = [sentences EXCEPT ![i].rank = Len(StatusChain) + 1]
     ELSE /\ sentences[i].rank < Len(StatusChain)
          /\ events' = Append(events, [sid |-> sentences[i].sid,
                                       status |-> StatusChain[sentences[i].rank + 1]])
          /\ sentences' = [sentences EXCEPT ![i].rank = sentences[i].rank + 1]
  /\ Emit(<<>>)
  /\ UNCHANGED << stmRef, running, failure, lock, stale, ops,
                  documentText, version, nextSid >>
  /\ UNCHANGED waiting
  /\ pair' = NoPair

\* the STM reports one event through the callbacks resetCoq installed
Report(ev, b, e, errs) ==
  IF ev.status = "Error"
  THEN IF stmRef = "null"
       THEN << highlightSentence(b, e, "TacticFailure", ev.sid, 0) >>
       ELSE onCoqStateError(b, e, ev.sid, errs, 0)
  ELSE IF ev.status = "Cleared"
  THEN onClearSentence(b, e, ev.sid, 0)
  ELSE onCoqStateStatusUpdate(b, e, ev.status, ev.sid, 0)

\* the STM reporting an event without looking for its state id on the
\* spine: the range is the one the sentence had when it was added
handleEvent_unchecked ==
  LET ev == Head(events) IN
  /\ Quiet
  /\ events # <<>>
  /\ stmRef = "inst"
  /\ events' = Tail(events)
  /\ Emit(onCoqStateStatusUpdate(0, 0, ev.status, ev.sid, 0))
  /\ UNCHANGED << stmRef, running, sentences, failure, lock, stale, ops,
                  documentText, version, nextSid, nOps >>
  /\ UNCHANGED waiting
  /\ UNCHANGED pair

\* the STM takes the oldest event: an event for a state id on the spine
\* updates that sentence and is reported, any other is dropped
handleEvent ==
  LET ev == Head(events)
      i == IndexOf(sentences, ev.sid)
      upd == [sentences EXCEPT ![i].status = ev.status,
                               ![i].err = (sentences[i].err \/ ev.status = "Error")]
  IN
  /\ Quiet
  /\ events # <<>>
  /\ stmRef = "inst"
  /\ events' = Tail(events)
  /\ IF OnSpine(sentences, ev.sid)
     THEN /\ sentences' = upd
          /\ Emit(Report(ev, upd[i].b, upd[i].e, getErrors(upd, failure)))
     ELSE /\ UNCHANGED sentences
          /\ Emit(<< Note("drop", 0, "", ev.status, 0, 0, ev.sid, NoFocus, <<>>) >>)
  /\ UNCHANGED << stmRef, running, failure, lock, stale, ops,
                  documentText, version, nextSid, nOps >>
  /\ UNCHANGED waiting
  /\ UNCHANGED pair

\* what a replaced STM has to deliver when its prover has died: coqDied
\* without or with a reason
DiedStatuses == {"Died", "DiedError"}

\* an event of the STM that resetCoq replaced: its callbacks are those of
\* the document, so the report reaches the client
handleStale ==
  LET ev == Head(stale) IN
  /\ Quiet
  /\ stale # <<>>
  /\ ev.status \notin DiedStatuses
  /\ stale' = Tail(stale)
  /\ Emit(Report(ev, ev.b, ev.e, getErrors(sentences, failure)))
  /\ UNCHANGED << stmRef, running, sentences, failure, lock, events,
                  ops, documentText, version, nextSid, nOps >>
  /\ UNCHANGED waiting
  /\ UNCHANGED pair

\* the shutdown of the replaced STM completes
staleClose ==
  /\ Quiet
  /\ stale # <<>>
  /\ stale' = <<>>
  /\ Emit(<<>>)
  /\ UNCHANGED << stmRef, running, sentences, failure, lock, events,
                  ops, documentText, version, nextSid, nOps >>
  /\ UNCHANGED waiting
  /\ UNCHANGED pair

\* the prover dies: the STM stops running and calls coqDied; onCoqDied
\* does nothing without a reason, otherwise resetCoq and sendReset
proverDied(reason) ==
  /\ nOps < MaxOps
  /\ stmRef = "inst" /\ running
  /\ Quiet
  /\ nOps' = nOps + 1
  /\ IF reason
     THEN /\ stmRef' = "inst" /\ running' = TRUE
          /\ sentences' = <<>> /\ failure' = <<>>
          /\ Emit(<< Note("reset", 0, "", "", 0, 0, 0, NoFocus, <<>>) >>)
     ELSE /\ running' = FALSE
          /\ Emit(<<>>)
          /\ UNCHANGED << stmRef, sentences, failure >>
  /\ lock' = 0
  /\ events' = <<>>
  /\ ops' = Orphan(ops)
  /\ UNCHANGED << stale, documentText, version, nextSid >>
  /\ waiting' = <<>>
  /\ pair' = NoPair

\* ---------------------------------------------------------------- queries
Queries == {"locateIdent", "checkTerm", "search", "searchAbout"}

\* locateIdent, checkTerm, search, searchAbout up to `await stm.doQuery`:
\* without a running STM the answer is the text "Coq is not running"
\* a query that calls assertStm first, as the commands do
doQuery_assertStm(o, kind) ==
  /\ FreeSlot(o)
  /\ nOps' = nOps + 1
  /\ assertStm(o, [IdleOp EXCEPT !.kind = kind, !.pc = "call"])
  /\ Emit(<<>>)
  /\ UNCHANGED << documentText, version, nextSid >>
  /\ pair' = NoPair

doQuery(o, kind) ==
  /\ FreeSlot(o)
  /\ nOps' = nOps + 1
  /\ IF NeedStm
     THEN /\ Emit(<< Resp(o, kind, "not-running", 0, 0, NoFocus, TRUE) >>)
          /\ UNCHANGED << ops, waiting >>
     ELSE /\ Emit(<<>>)
          /\ waiting' = Append(waiting, o)
          /\ ops' = [ops EXCEPT ![o] = [IdleOp EXCEPT !.kind = kind,
                                                      !.pc = "call"]]
  /\ StmUnchanged
  /\ UNCHANGED << documentText, version, nextSid >>
  /\ pair' = NoPair

locateIdent(o) == doQuery(o, "locateIdent")

checkTerm(o) == doQuery(o, "checkTerm")

search(o) == doQuery(o, "search")

searchAbout(o) == doQuery(o, "searchAbout")

\* stm.doQuery once it holds the lock: the query is sent to the prover
stmDoQuery(o) ==
  /\ ops[o].pc = "call" /\ ops[o].kind \in Queries /\ ~ops[o].orphan
  /\ lock = 0
  /\ waiting # <<>> /\ Head(waiting) = o
  /\ waiting' = Tail(waiting)
  /\ ops' = [ops EXCEPT ![o].pc = "query"]
  /\ lock' = o
  /\ Emit(<<>>)
  /\ UNCHANGED << stmRef, running, sentences, failure, events, stale,
                  documentText, version, nextSid, nOps >>
  /\ UNCHANGED pair

QueryOutcomes == {"answer", "throw"}

\* the prover answers the query: the spine stays as it is
proverQueryResp(o, outcome) ==
  /\ Quiet
  /\ ops[o].pc = "query" /\ ~ops[o].orphan
  /\ outcome \in (IF ops[o].cancelled # "" THEN {"interrupted"} ELSE QueryOutcomes)
  /\ ops' = [ops EXCEPT ![o] = Resolve(ops[o], outcome, 0, 0, NoFocus)]
  /\ lock' = 0
  /\ Emit(<<>>)
  /\ UNCHANGED << stmRef, running, sentences, failure, events, stale,
                  documentText, version, nextSid, nOps >>
  /\ UNCHANGED waiting
  /\ UNCHANGED pair

\* ---------------------------------------- settings and profile (code/spec)
Controls == {"setWrappingWidth", "requestLtacProfResults"}

\* `if(!this.stm || !this.stm.isRunning()) return;` and then the awaited
\* call of the STM
returnUnlessRunning(o, kind) ==
  /\ FreeSlot(o)
  /\ nOps' = nOps + 1
  /\ IF NeedStm
     THEN /\ Emit(<< Resp(o, kind, "done", 0, 0, NoFocus, TRUE) >>)
          /\ UNCHANGED << ops, waiting >>
     ELSE /\ Emit(<<>>)
          /\ waiting' = Append(waiting, o)
          /\ ops' = [ops EXCEPT ![o] = [IdleOp EXCEPT !.kind = kind,
                                                      !.pc = "call"]]
  /\ StmUnchanged
  /\ UNCHANGED << documentText, version, nextSid >>
  /\ pair' = NoPair

setWrappingWidth(o) == returnUnlessRunning(o, "setWrappingWidth")

requestLtacProfResults(o) == returnUnlessRunning(o, "requestLtacProfResults")

\* stm.setWrappingWidth / stm.requestLtacProfResults once it holds the
\* lock: the request is sent to the prover, which answers as it answers a
\* query
stmControl(o) ==
  /\ ops[o].pc = "call" /\ ops[o].kind \in Controls /\ ~ops[o].orphan
  /\ lock = 0
  /\ waiting # <<>> /\ Head(waiting) = o
  /\ waiting' = Tail(waiting)
  /\ ops' = [ops EXCEPT ![o].pc = "query"]
  /\ lock' = o
  /\ Emit(<<>>)
  /\ UNCHANGED << stmRef, running, sentences, failure, events, stale,
                  documentText, version, nextSid, nOps >>
  /\ UNCHANGED pair

\* the awaited call has ended: the operation returns nothing, or throws
\* what the call threw
afterControl(o) ==
  /\ ops[o].pc = "ret" /\ ops[o].kind \in Controls
  /\ Emit(<< Resp(o, ops[o].kind,
                  IF ops[o].res = "throw" THEN "throw" ELSE "done",
                  0, 0, NoFocus, FALSE) >>)
  /\ ops' = [ops EXCEPT ![o] = IdleOp]
  /\ StmUnchanged
  /\ UNCHANGED << documentText, version, nextSid, nOps >>
  /\ UNCHANGED waiting
  /\ UNCHANGED pair

\* the query sending the diagnostics on its way out, as getGoal does
afterQuery_withDiagnostics(o) ==
  /\ ops[o].pc = "ret" /\ ops[o].kind \in Queries
  /\ Emit(finallyThenReturn(
            updateDiagnostics(getErrors(sentences, failure), o),
            Resp(o, ops[o].kind, ops[o].res, 0, 0, NoFocus, FALSE)))
  /\ ops' = [ops EXCEPT ![o] = IdleOp]
  /\ StmUnchanged
  /\ UNCHANGED << documentText, version, nextSid, nOps >>
  /\ UNCHANGED waiting
  /\ UNCHANGED pair

\* after `await this.stm.doQuery(...)`: the answer is returned as it is
afterQuery(o) ==
  /\ ops[o].pc = "ret" /\ ops[o].kind \in Queries
  /\ Emit(<< Resp(o, ops[o].kind, ops[o].res, 0, 0, NoFocus, FALSE) >>)
  /\ ops' = [ops EXCEPT ![o] = IdleOp]
  /\ StmUnchanged
  /\ UNCHANGED << documentText, version, nextSid, nOps >>
  /\ UNCHANGED waiting
  /\ UNCHANGED pair

\* ------------------------------------------------------------------- next
Next ==
  \/ \E o \in Slots : stepForward(o)
  \/ \E o \in Slots : stepBackward(o)
  \/ \E o \in Slots : \E offset \in Targets : interpretToPoint(o, offset)
  \/ \E o \in Slots : interpretToEnd(o)
  \/ \E o \in Slots : getGoal(o)
  \/ \E o \in Slots : \E c \in Changes(documentText) :
        applyTextEdits(o, << c >>, newVersion)
  \/ resetCoqRequest
  \/ \E o \in Slots : quitCoq(o)
  \/ \E o \in Slots : shutdownSettles(o)
  \/ \E o \in Slots : quitCoqDone(o)
  \/ \E o \in Slots : close(o)
  \/ \E o \in Slots : closeDone(o)
  \/ interrupt
  \/ \E o \in Slots : stmBegin(o)
  \/ \E o \in Slots : \E r \in {"ok", "fail", "throw", "interrupted"} : proverAddResp(o, r)
  \/ \E o \in Slots : proverEditAtResp(o)
  \/ \E o \in Slots : applyChangesCancel(o)
  \/ \E o \in Slots : applyChanges(o)
  \/ \E o \in Slots : stmGetGoal(o)
  \/ \E o \in Slots : \E r \in GoalOutcomes \cup {"interrupted"} : proverGoalResp(o, r)
  \/ \E o \in Slots : orphanResolve(o)
  \/ \E o \in Slots : afterStmCall(o)
  \/ \E o \in Slots : afterGetGoal(o)
  \/ \E o \in Slots : afterInterpretToPoint(o)
  \/ \E o \in Slots : afterApplyChanges(o)
  \/ \E o \in Slots : locateIdent(o)
  \/ \E o \in Slots : checkTerm(o)
  \/ \E o \in Slots : search(o)
  \/ \E o \in Slots : searchAbout(o)
  \/ \E o \in Slots : stmDoQuery(o)
  \/ \E o \in Slots : \E r \in QueryOutcomes \cup {"interrupted"} :
        proverQueryResp(o, r)
  \/ \E o \in Slots : afterQuery(o)
  \/ \E o \in Slots : setWrappingWidth(o)
  \/ \E o \in Slots : requestLtacProfResults(o)
  \/ \E o \in Slots : stmControl(o)
  \/ \E o \in Slots : afterControl(o)
  \/ \E level \in {"Notice"} : onCoqMessage(level)
  \/ onCoqStateLtacProf
  \/ \E i \in 1..Len(sentences) : \E isError \in BOOLEAN : proverEmit(i, isError)
  \/ handleEvent
  \/ handleStale
  \/ staleClose
  \/ \E reason \in BOOLEAN : proverDied(reason)

Spec == Init /\ [][Next]_vars

\* ------------------------------------------- the command sequence alone
MaxText == 5       \* length of the texts the sequence is generated from

GenTexts == UNION {[1..n -> Chars] : n \in 0..MaxText}

\* commandSequenceGenerator(begin, end) is called on a text: the generator
\* object is created, its body has not started
InitGen ==
  /\ documentText \in GenTexts
  /\ \E begin \in 0..Len(documentText) :
     \E end \in {NoEnd} \cup 0..Len(documentText) :
        iter = [state |-> "suspendedStart", begin |-> begin, end |-> end,
                endOffset |-> genEndOffset(documentText, end),
                currentOffset |-> offsetAt(documentText, begin),
                result |-> NoCommand]
  /\ version = 0
  /\ stmRef = "inst"
  /\ running = TRUE
  /\ sentences = <<>>
  /\ failure = <<>>
  /\ lock = 0
  /\ waiting = <<>>
  /\ events = <<>>
  /\ stale = <<>>
  /\ nextSid = 1
  /\ ops = [o \in Slots |-> IdleOp]
  /\ out = <<>>
  /\ lastDiag = <<>>
  /\ cleared = {}
  /\ nOps = 0
  /\ parsing = [o \in Slots |-> {}]
  /\ pair = NoPair
  /\ NoLsp
  /\ NoClient

\* next() runs the body to its end: at the first call when currentOffset is
\* not below endOffset, otherwise when a turn of the loop yields nothing
GenReturns ==
  \/ iter.state = "suspendedStart" /\ iter.currentOffset >= iter.endOffset
  \/ ~commandSequenceGenerator(documentText, iter.currentOffset,
                               iter.endOffset).ok

\* next() on the generator: the body returns
genReturn ==
  /\ iter.state \in {"suspendedStart", "suspendedYield"}
  /\ GenReturns
  /\ iter' = [iter EXCEPT !.state = "closed"]
  /\ UNCHANGED << documentText, version, stmRef, running, sentences, failure,
                  lock, waiting, events, stale, nextSid, ops, out, lastDiag,
                  cleared, nOps, parsing, pair >>
  /\ UNCHANGED << lspVars, clientVars >>

\* next() on the generator: a command is yielded; currentOffset becomes
\* nextOffset when the body resumes
genYield ==
  LET r == commandSequenceGenerator(documentText, iter.currentOffset,
                                    iter.endOffset)
  IN
  /\ iter.state \in {"suspendedStart", "suspendedYield"}
  /\ ~GenReturns
  /\ iter' = [iter EXCEPT !.state = "suspendedYield",
                          !.currentOffset = r.next,
                          !.result = [text |-> r.text, b |-> r.b, e |-> r.e]]
  /\ UNCHANGED << documentText, version, stmRef, running, sentences, failure,
                  lock, waiting, events, stale, nextSid, ops, out, lastDiag,
                  cleared, nOps, parsing, pair >>
  /\ UNCHANGED << lspVars, clientVars >>

NextGen == genYield \/ genReturn

SpecGen == InitGen /\ [][NextGen]_vars

\* the consumer keeps requesting commands
SpecGenLive == InitGen /\ [][NextGen]_vars /\ WF_vars(NextGen)

\* ------------------------------------------ the death of a replaced STM
\* the prover of an STM that resetCoq has replaced, and whose shutdown is
\* still under way, dies: that STM will call coqDied
replacedProverDies(reason) ==
  /\ Quiet
  /\ stale # <<>>
  /\ \A i \in 1..Len(stale) : stale[i].status \notin DiedStatuses
  /\ UNCHANGED nOps
  /\ stale' = Append(stale, [sid |-> 0, b |-> 0, e |-> 0,
                             status |-> IF reason THEN "DiedError" ELSE "Died"])
  /\ Emit(<<>>)
  /\ UNCHANGED << stmRef, running, sentences, failure, lock, events, ops,
                  documentText, version, nextSid >>
  /\ UNCHANGED waiting
  /\ pair' = NoPair

\* the replaced STM calls coqDied: the callback resetCoq gave it is
\* onCoqDied of the document, which with a reason calls resetCoq on the
\* STM the document has now and sends reset
replacedCoqDied ==
  /\ Quiet
  /\ stale # <<>>
  /\ Head(stale).status \in DiedStatuses
  /\ IF Head(stale).status = "DiedError"
     THEN /\ stmRef' = "inst"
          /\ running' = TRUE
          /\ sentences' = <<>>
          /\ failure' = <<>>
          /\ lock' = 0
          /\ events' = <<>>
          /\ stale' = Tail(stale) \o StaleOf(events, sentences)
          /\ ops' = Orphan(ops)
          /\ waiting' = <<>>
          /\ Emit(<< Note("reset", 0, "", "", 0, 0, 0, NoFocus, <<>>) >>)
     ELSE /\ stale' = Tail(stale)
          /\ Emit(<<>>)
          /\ UNCHANGED << stmRef, running, sentences, failure, lock, events,
                          ops, waiting >>
  /\ UNCHANGED << documentText, version, nextSid, nOps >>
  /\ UNCHANGED pair

NextReplaced ==
  \/ Next
  \/ \E reason \in BOOLEAN : replacedProverDies(reason)
  \/ replacedCoqDied

SpecReplaced == Init /\ [][NextReplaced]_vars

\* ------------------------------------------------------ LSP manager (code)
MaxRequests == 3    \* input events read from stdin
MaxDmEvents == 1    \* document manager events waiting, per document

Methods ==
  {"initialize", "initialized", "textDocument/didOpen",
   "textDocument/didChange", "textDocument/didSave",
   "vscoq/interpretToPoint", "vscoq/stepBackward", "vscoq/stepForward",
   "vscoq/resetCoq", "vscoq/interpretToEnd", "vscoq/updateProofView",
   "vscoq/unknown"}

\* TraceValue.of_string accepts these
TraceValues == {"off", "messages", "verbose"}

\* what stdin delivers: a read error, bytes that are not JSON, or a request
\* with its method, the uri in its params and, for initialize, the trace
\* member of its params ("absent": the member is not there)
LspInputs ==
  [read : {"ok", "error"}, json : BOOLEAN, method : Methods, uri : Uris,
   trace : {"off", "absent"}]

\* no document of the editor is open on the server side of the controller
NoDocument ==
  /\ documentText = <<>>
  /\ version = 0
  /\ stmRef = "null"
  /\ running = FALSE
  /\ sentences = <<>>
  /\ failure = <<>>
  /\ lock = 0
  /\ waiting = <<>>
  /\ events = <<>>
  /\ stale = <<>>
  /\ nextSid = 1
  /\ ops = [o \in Slots |-> IdleOp]
  /\ out = <<>>
  /\ lastDiag = <<>>
  /\ cleared = {}
  /\ parsing = [o \in Slots |-> {}]
  /\ iter = NoIter
  /\ nOps = 0
  /\ pair = NoPair

\* the loop starts waiting for the stdin event
InitLsp ==
  /\ NoDocument
  /\ NoClient
  /\ states = {}
  /\ todo = [lsp |-> 1, dm |-> [u \in Uris |-> 0]]
  /\ raised = FALSE
  /\ requests = 0
  /\ dispatched = NoDispatch

\* the callback of the stdin event: Request (Some json) when the bytes were
\* read and decoded, Request None otherwise
lsp(input) == input.read = "ok" /\ input.json

\* what a handler does: raise, or add a document, update a view and return
\* document manager events
Raise == [raise |-> TRUE, open |-> {}, view |-> "", dm |-> 0]

Done(open, view, n) == [raise |-> FALSE, open |-> open, view |-> view, dm |-> n]

\* Hashtbl.find states uri raises Not_found for a uri that is not open
find(uri, r) == IF uri \in states THEN r ELSE Raise

\* dispatch_method with the handlers it calls; n is the number of events
\* the document manager returns
dispatch_method(method, uri, trace, n) ==
  CASE method = "initialize" ->
         IF trace \in TraceValues THEN Done({}, "", 0) ELSE Raise
    [] method = "initialized" -> Done({}, "", 0)
    [] method = "textDocument/didOpen" -> Done({uri}, uri, n)
    [] method \in {"textDocument/didChange", "vscoq/interpretToPoint",
                   "vscoq/stepBackward", "vscoq/stepForward",
                   "vscoq/interpretToEnd"} -> find(uri, Done({}, uri, n))
    [] method \in {"textDocument/didSave", "vscoq/resetCoq"} ->
         find(uri, Done({}, uri, 0))
    [] method = "vscoq/updateProofView" -> find(uri, Done({}, "", 0))
    [] OTHER -> Done({}, "", 0)

\* the loop takes the stdin event off the events it waits for and calls
\* handle_lsp_event, whose result it adds to them; an exception ends it
handle_lsp_event(input, n) ==
  LET r == dispatch_method(input.method, input.uri, input.trace, n)
      popped == [todo EXCEPT !.lsp = @ - 1]
  IN
  /\ ~raised
  /\ todo.lsp > 0
  /\ requests < MaxRequests
  /\ requests' = requests + 1
  /\ IF ~lsp(input)
     THEN /\ n = 0
          /\ todo' = popped
          /\ UNCHANGED << states, raised, dispatched >>
     ELSE IF r.raise
     THEN /\ n = 0
          /\ todo' = popped
          /\ raised' = TRUE
          /\ UNCHANGED << states, dispatched >>
     ELSE /\ n = r.dm
          /\ todo.dm[input.uri] + n <= MaxDmEvents
          /\ states' = states \cup r.open
          /\ todo' = [popped EXCEPT !.lsp = @ + 1, !.dm[input.uri] = @ + n]
          /\ dispatched' = [method |-> input.method, view |-> r.view]
          /\ UNCHANGED raised
  /\ UNCHANGED << docVars, clientVars >>

\* the loop takes a document manager event off the events it waits for and
\* calls handle_event: the document manager returns n events and maybe a
\* new state, whose view is then sent
handle_event(uri, n, updated) ==
  /\ ~raised
  /\ todo.dm[uri] > 0
  /\ IF uri \notin states
     THEN /\ n = 0 /\ ~updated
          /\ todo' = [todo EXCEPT !.dm[uri] = @ - 1]
          /\ UNCHANGED dispatched
     ELSE /\ todo' = [todo EXCEPT !.dm[uri] = @ - 1 + n]
          /\ dispatched' = IF updated THEN [method |-> "", view |-> uri]
                           ELSE dispatched
  /\ UNCHANGED << states, raised, requests >>
  /\ UNCHANGED << docVars, clientVars >>

\* progress_hook uri (): the view of the document is sent; Hashtbl.find
\* raises Not_found for a uri that is not open. It takes no event off those
\* waited for and adds none
progress_hook(uri) ==
  /\ ~raised
  /\ IF uri \in states
     THEN /\ dispatched' = [method |-> "", view |-> uri]
          /\ UNCHANGED raised
     ELSE /\ raised' = TRUE
          /\ UNCHANGED dispatched
  /\ UNCHANGED << states, todo, requests >>
  /\ UNCHANGED << docVars, clientVars >>

NextLsp ==
  \/ \E input \in LspInputs : \E n \in 0..MaxDmEvents : handle_lsp_event(input, n)
  \/ \E uri \in Uris : progress_hook(uri)
  \/ \E uri \in Uris : \E n \in 0..MaxDmEvents : \E updated \in BOOLEAN :
        handle_event(uri, n, updated)

SpecLsp == InitLsp /\ [][NextLsp]_vars

\* ---------------------------------------------------- editor client (code)
documentUri == "u1"

MaxMark == 2    \* the last offset of the text the editors show

\* the offsets a highlight can cover
Marks == 0..MaxMark

HighlightParams == [uri : Uris, marks : SUBSET Marks \ {{}}]

ClientCommands ==
  {"stepForward", "stepBackward", "interpretToCursorPosition",
   "interpretToEnd", "check", "locate", "search", "searchAbout",
   "ltacProfGetResults", "interruptCoq", "quitCoq", "resetCoq"}

\* the commands that test their editor before they call the server
EditorChecked == {"interpretToCursorPosition", "ltacProfGetResults"}

\* the commands that await the server in `try { } finally {}`
Uncaught == {"interruptCoq", "quitCoq", "resetCoq"}

\* the constructor: the status bar gets the focus when the active editor
\* shows the document, and is set to ready
InitClient ==
  /\ NoDocument
  /\ NoLsp
  /\ highlights = {}
  /\ statusBar = "ready"
  /\ focused \in BOOLEAN
  /\ commands = [c \in ClientSlots |-> NoClientCommand]

\* Highlights.updateHighlights: the highlights of the notification are put
\* on top of what is shown
highlightsUpdateHighlights(shown, params) == shown \cup params.marks

\* a content change as textUtil.toRangeDelta gives it to Highlights: where
\* it starts and by how much the text after it moves
RangeDeltas == [start : Marks, delta : {0 - 1, 1}]

\* Highlights.applyEdit: the highlights behind the change move with the
\* text, those on removed text go
applyEdit(shown, change) ==
  {m \in shown : m < change.start}
  \cup ({m + change.delta :
           m \in {x \in shown : x >= change.start
                                     + (IF change.delta < 0 THEN 1 ELSE 0)}}
        \cap Marks)

\* the content changes of one change event
ChangeEvents ==
  {<< c >> : c \in RangeDeltas} \cup {<< c, d >> : c \in RangeDeltas, d \in RangeDeltas}

RECURSIVE applyEdits(_, _)
applyEdits(shown, changes) ==
  IF changes = <<>> THEN shown
  ELSE applyEdits(applyEdit(shown, Head(changes)), Tail(changes))

\* reset(): Highlights.clearAllHighlights
reset == {}

Ended(cmd) == [NoClientCommand EXCEPT !.ends = 1 - cmd.ends]

\* a command up to its await: setStateWorking, then the request to the
\* server; interpretToCursorPosition and ltacProfGetResults return from
\* inside the try block when the editor is not one of this document, the
\* first without a finally block, the second through its finally block
clientCommand(c, kind, ownEditor) ==
  /\ commands[c].pc = "idle"
  /\ IF kind \in EditorChecked /\ ~ownEditor
     THEN /\ commands' = [commands EXCEPT ![c] = Ended(commands[c])]
          /\ statusBar' = IF kind = "ltacProfGetResults" THEN "ready"
                          ELSE "working"
     ELSE /\ commands' = [commands EXCEPT ![c].kind = kind, ![c].pc = "awaiting"]
          /\ statusBar' = "working"
  /\ UNCHANGED << highlights, focused >>
  /\ UNCHANGED << docVars, lspVars >>

\* the server answers the request: the rest of the try block, then what
\* follows the try statement
clientResolve(c) ==
  /\ commands[c].pc = "awaiting"
  /\ commands' = [commands EXCEPT ![c] = Ended(commands[c])]
  /\ highlights' = IF commands[c].kind \in {"quitCoq", "resetCoq"} THEN reset
                   ELSE highlights
  /\ statusBar' = "ready"
  /\ UNCHANGED focused
  /\ UNCHANGED << docVars, lspVars >>

\* the request is rejected: a catch block swallows the error and
\* setStateReady follows; `try { } finally {}` has no catch block, the error
\* leaves the command and nothing after the try statement runs
clientReject(c) ==
  /\ commands[c].pc = "awaiting"
  /\ commands' = [commands EXCEPT ![c] = Ended(commands[c])]
  /\ statusBar' = IF commands[c].kind \in Uncaught THEN statusBar ELSE "ready"
  /\ UNCHANGED << highlights, focused >>
  /\ UNCHANGED << docVars, lspVars >>

\* updateHighlights(editor, params), a public method
updateHighlights(params) ==
  /\ highlights' = highlightsUpdateHighlights(highlights, params)
  /\ UNCHANGED << statusBar, focused, commands >>
  /\ UNCHANGED << docVars, lspVars >>

\* the callback registered with onUpdateHighlights: updateHighlights is
\* called for every editor that shows the document
onDidUpdateHighlights(params, visible) ==
  /\ IF visible THEN updateHighlights(params)
     ELSE /\ UNCHANGED << highlights, statusBar, focused, commands >>
          /\ UNCHANGED << docVars, lspVars >>

\* onDidChangeTextDocument: Highlights.applyEdit for every content change
onDidChangeTextDocument(contentChanges) ==
  /\ highlights' = applyEdits(highlights, contentChanges)
  /\ UNCHANGED << statusBar, focused, commands >>
  /\ UNCHANGED << docVars, lspVars >>

\* doOnFocus: the highlights are drawn again, the status bar is shown
doOnFocus ==
  /\ focused' = TRUE
  /\ UNCHANGED << highlights, statusBar, commands >>
  /\ UNCHANGED << docVars, lspVars >>

\* doOnLostFocus: the status bar is hidden
doOnLostFocus ==
  /\ focused' = FALSE
  /\ UNCHANGED << highlights, statusBar, commands >>
  /\ UNCHANGED << docVars, lspVars >>

\* doOnSwitchActiveEditor: the highlights are drawn again in the new editor
doOnSwitchActiveEditor ==
  /\ UNCHANGED << highlights, statusBar, focused, commands >>
  /\ UNCHANGED << docVars, lspVars >>

\* the callback registered with onReset
onCoqReset(uri) ==
  /\ IF uri = documentUri
     THEN highlights' = reset /\ statusBar' = "ready"
     ELSE UNCHANGED << highlights, statusBar >>
  /\ UNCHANGED << focused, commands >>
  /\ UNCHANGED << docVars, lspVars >>

\* the callback registered with onUpdateComputingStatus
onUpdateComputingStatus(uri) ==
  /\ statusBar' = IF uri = documentUri THEN "computing" ELSE statusBar
  /\ UNCHANGED << highlights, focused, commands >>
  /\ UNCHANGED << docVars, lspVars >>

NextClient ==
  \/ \E c \in ClientSlots : \E kind \in ClientCommands :
        \E ownEditor \in BOOLEAN : clientCommand(c, kind, ownEditor)
  \/ \E c \in ClientSlots : clientResolve(c)
  \/ \E c \in ClientSlots : clientReject(c)
  \/ \E params \in HighlightParams : \E visible \in BOOLEAN :
        onDidUpdateHighlights(params, visible)
  \/ \E params \in HighlightParams : updateHighlights(params)
  \/ \E contentChanges \in ChangeEvents :
        onDidChangeTextDocument(contentChanges)
  \/ doOnFocus
  \/ doOnLostFocus
  \/ doOnSwitchActiveEditor
  \/ \E uri \in Uris : onCoqReset(uri)
  \/ \E uri \in Uris : onUpdateComputingStatus(uri)

SpecClient == InitClient /\ [][NextClient]_vars

\* ------------------------------------------------------------- properties
AllIdle == \A o \in Slots : ops[o].pc = "idle"

\* no operation is suspended and no prover event waits to be handled
Settled == AllIdle /\ events = <<>> /\ stale = <<>>

NoEditInFlight == \A o \in Slots : ops[o].kind # "applyTextEdits"

\* the document has an STM and its prover runs
Live == stmRef = "inst" /\ running

\* the errors the document's STM holds
HeldErrors == IF stmRef = "null" THEN <<>> ELSE getErrors(sentences, failure)

AsSet(l) == {l[i] : i \in 1..Len(l)}

ErrorDiagnostics == {createDiagnostic(HeldErrors[i]) : i \in 1..Len(HeldErrors)}

\* C1: once every operation has returned and every prover event has been
\* handled, the diagnostics list the client received last holds exactly the
\* errors of the STM: none is stale, none is missing.
C1_DiagnosticsEqualErrors == Settled => AsSet(lastDiag) = ErrorDiagnostics

\* the responses of stepForward, stepBackward, interpretToPoint,
\* interpretToEnd and of getGoal with a running STM
Exits ==
  {i \in 1..Len(out) : /\ out[i].t = "resp" /\ out[i].sid = 0
                       /\ out[i].kind \in Commands \cup {"getGoal"}}

\* C2: whichever way one of these operations ends (goal, failure result,
\* exception), it has sent a diagnostics notification before its result:
\* the full list rebuilt from the STM's errors, every entry of severity
\* Error.
C2_DiagnosticsOnEveryExit ==
  \A i \in Exits : \E j \in 1..(i-1) :
     /\ out[j].t = "diag" /\ out[j].op = out[i].op
     /\ AsSet(out[j].list) = ErrorDiagnostics
     /\ Len(out[j].list) = Len(HeldErrors)
     /\ \A k \in 1..Len(out[j].list) : out[j].list[k].severity = "Error"

\* the operations a highlight or diagnostics notification belongs to: the
\* one whose control flow sends it, or, for a highlight the STM reports for
\* a sentence through the callbacks, the one that has added the sentence
\* and is still suspended
Owners(n) ==
  IF n.op > 0
  THEN {o \in Slots : o = n.op /\ (ops[o].pc # "idle" \/ ops'[o].pc # "idle")}
  ELSE {o \in Slots : ops[o].pc # "idle" /\ n.sid \in ops[o].adds}

\* C3: every highlight or diagnostics notification caused by an operation
\* (sent by its control flow, or reported by the STM for a sentence it has
\* added) is sent while that operation is pending and in front of its
\* response; none follows the response.
C3_NotificationsPrecedeResponse ==
  [][\A i \in 1..Len(out') :
       (/\ out'[i].t \in {"hl", "diag"}
        /\ (out'[i].op > 0 \/ out'[i].sid > 0)) =>
          /\ Owners(out'[i]) # {}
          /\ \A j \in 1..(i-1) :
                ~(out'[j].t = "resp" /\ out'[j].op \in Owners(out'[i]))]_vars

\* the statuses an STM reports for a sentence
Statuses == {"Parsed", "ProcessingInput", "InProgress", "Incomplete",
             "Processed", "Complete", "Error", "Cleared"}

MaxReports == 2    \* reports waiting to be handled

ReportQueues ==
  UNION {[1..n -> [sid : {1, 2}, status : Statuses]] : n \in 1..MaxReports}

\* the document after interpretToEnd has run both sentences of the text,
\* with reports of the prover waiting
InitTable ==
  /\ documentText \in InitTexts
  /\ version = 0
  /\ stmRef = "inst"
  /\ running = TRUE
  /\ sentences = << NewSentence(1, 0, 2, substring(documentText, 0, 2)),
                    NewSentence(2, 2, 5, substring(documentText, 2, 5)) >>
  /\ failure = <<>>
  /\ lock = 0
  /\ waiting = <<>>
  /\ events \in ReportQueues
  /\ stale = <<>>
  /\ nextSid = 3
  /\ ops = [o \in Slots |-> IdleOp]
  /\ out = <<>>
  /\ lastDiag = <<>>
  /\ cleared = {}
  /\ parsing = [o \in Slots |-> {}]
  /\ iter = NoIter
  /\ nOps = 0
  /\ pair = NoPair
  /\ NoLsp
  /\ NoClient

NextTable == handleEvent

SpecTable == InitTable /\ [][NextTable]_vars

\* the table of spec.md 4.4
StyleOf(status) ==
  CASE status = "Parsed" -> "Parsing"
    [] status = "ProcessingInput" -> "Processing"
    [] status = "InProgress" -> "InProgress"
    [] status = "Incomplete" -> "Incomplete"
    [] status = "Processed" -> "Processed"
    [] status = "Complete" -> "Complete"
    [] status = "Error" -> "TacticFailure"
    [] status = "Cleared" -> "Clear"

Highlights(notes) == {k \in 1..Len(notes) : notes[k].t = "hl"}

\* C4: a status the STM reports for a sentence reaches the client as exactly
\* one highlight, over the range of that sentence, in the style the table
\* gives for the status.
C4_StatusTable ==
  [][(events # <<>> /\ events' = Tail(events)) =>
       LET ev == Head(events)
           i == IndexOf(sentences, ev.sid)
       IN  /\ Cardinality(Highlights(out')) = 1
           /\ \A k \in Highlights(out') :
                 /\ out'[k].style = StyleOf(ev.status)
                 /\ out'[k].b = sentences[i].b
                 /\ out'[k].e = sentences[i].e]_vars

\* the report ProcessingInput has been handled and shown as Processing
C4_Witness ==
  /\ events = <<>> /\ Len(out) = 1
  /\ out[1].t = "hl" /\ out[1].style = "Processing" /\ out[1].sid = 2
  /\ sentences[2].status = "ProcessingInput"

\* C5: a prover event for a state id that is not on the spine of the
\* document's STM causes no notification to the client.
C5_NoNotificationOffSpine ==
  \A i \in 1..Len(out) :
     (out[i].t \in {"hl", "diag", "msg", "reset"} /\ out[i].op = 0
      /\ out[i].sid > 0) => (stmRef = "inst" /\ OnSpine(sentences, out[i].sid))

\* C6: once the Clear highlight of a sentence has been sent, no other
\* highlight is sent for that sentence.
C6_NoHighlightAfterClear ==
  [][\A i \in 1..Len(out') :
       (out'[i].t = "hl" /\ out'[i].style # "Clear" /\ out'[i].sid > 0) =>
          /\ out'[i].sid \notin cleared
          /\ \A j \in 1..(i-1) :
                ~(out'[j].t = "hl" /\ out'[j].style = "Clear"
                  /\ out'[j].sid = out'[i].sid)]_vars

\* a report for a sentence whose Clear has been sent was discarded
C6_Witness ==
  \E i \in 1..Len(out) : out[i].t = "drop" /\ out[i].sid \in cleared

\* the ranges are not empty, start at the origin and follow one another
Tiles(sents) ==
  /\ \A i \in 1..Len(sents) : sents[i].b < sents[i].e
  /\ sents # <<>> => sents[1].b = 0
  /\ \A i \in 1..(Len(sents) - 1) : sents[i + 1].b = sents[i].e

\* C7: between client requests the spine's ranges are disjoint, ordered and
\* tile the text from the origin to the focused position, which lies in the
\* text.
C7_SpineTilesPrefix ==
  (Live /\ NoEditInFlight) =>
     /\ Tiles(sentences)
     /\ getFocusedPosition(sentences) <= Len(documentText)

\* C8: every sentence of the spine has the text the buffer holds at its
\* range, also when an edit came in while a command was being run.
C8_SentenceTextIsBufferSlice ==
  (Live /\ NoEditInFlight) =>
     \A i \in 1..Len(sentences) :
        sentences[i].text = substring(documentText, sentences[i].b, sentences[i].e)

\* the operations whose prover request is in flight
InFlight == {o \in Slots : ops[o].pc \in Outstanding /\ ~ops[o].orphan}

\* C9: at most one request to the prover is outstanding.
C9_OneOutstandingRequest == Cardinality(InFlight) <= 1

\* a second operation is suspended in its STM call while a request is out
C9_Witness ==
  \E o, p \in Slots :
     /\ o \in InFlight /\ ops[p].pc \in {"call", "goalCall"} /\ ~ops[p].orphan
     /\ ops[p].kind \in {"stepForward", "getGoal", "applyTextEdits"}

\* the edit suspended in slot o waits for the STM with a change that is
\* not passive for the spine
Invalidating(o) ==
  /\ ops[o].kind = "applyTextEdits" /\ ops[o].pc = "call" /\ ~ops[o].orphan
  /\ running
  /\ ~PassiveBatch(sentences, ops[o].changes)

C11_EditAppliedBeforeLaterRequest ==
  [][ /\ version' >= version
      /\ \A o \in Slots :
            (/\ ops[o].kind \in Commands /\ ops[o].pc = "call"
             /\ ~ops[o].orphan /\ ops'[o].pc # "call")
            => ~\E p \in Slots : /\ ops[p].kind = "applyTextEdits"
                                 /\ ops[p].pc = "ret" ]_vars

\* ---------------------------------------------------------------- C12
\* C12: when interrupt arrives while the add of sentence k of an
\* interpretToPoint / interpretToEnd is outstanding, the call resolves as
\* interrupted with the focus at the end of sentence k-1, sentence k is not
\* put on the spine, no further command is pulled and announced, the prover
\* is left without a request, and the operation ends with the interrupted
\* result and that focus: interpretToPoint when it resumes, interpretToEnd
\* when it resumes after its interpretToPoint
C12_InterruptStopsInterpret ==
  [][ \A o \in Slots :
        /\ (/\ ops[o].kind \in {"interpretToPoint", "interpretToEnd"}
            /\ ops[o].pc = "add" /\ ops[o].cancelled = "interrupt"
            /\ ~ops[o].orphan /\ ops'[o].pc # "add")
           => /\ ops'[o].pc = "ret" /\ ops'[o].res = "interrupted"
              /\ ops'[o].rfocus = getFocusedPosition(sentences)
              /\ sentences' = sentences
              /\ lock' = 0
              /\ out' = <<>>
        /\ (/\ ops[o].kind = "interpretToEnd"
            /\ ops[o].pc = "ret" /\ ops[o].res = "interrupted"
            /\ ops[o].cancelled = "interrupt"
            /\ ops'[o].pc # "ret")
           => /\ ops'[o].pc = "outerRet"
              /\ ops'[o].res = "interrupted"
              /\ ops'[o].rfocus = ops[o].rfocus
              /\ \A i \in 1..Len(out') : out'[i].t = "diag"
              /\ sentences' = sentences
        /\ (/\ \/ ops[o].kind = "interpretToPoint" /\ ops[o].pc = "ret"
               \/ ops[o].kind = "interpretToEnd" /\ ops[o].pc = "outerRet"
            /\ ops[o].res = "interrupted"
            /\ ops[o].cancelled = "interrupt"
            /\ ops'[o].pc # ops[o].pc)
           => /\ ops'[o].pc = "idle"
              /\ out' # <<>>
              /\ out'[Len(out')].t = "resp"
              /\ out'[Len(out')].style = "interrupted"
              /\ out'[Len(out')].focus = ops[o].rfocus
              /\ sentences' = sentences ]_vars

\* ---------------------------------------------------------------- C13
\* C13: when the prover answers the add of a stepForward with Fail, the
\* sentence is not put on the spine, the call resolves as a failure carrying
\* the range of the attempted command and the focus at the end of the last
\* added sentence, no further command is attempted, and when the operation
\* ends the client has the failure result and a diagnostics list holding
\* exactly one Error diagnostic with that range and the message
C13_FailedAddIsReported ==
  [][ \A o \in Slots :
        /\ (/\ ops[o].kind = "stepForward" /\ ops[o].pc = "add"
            /\ ~ops[o].orphan /\ ops'[o].pc # "add"
            /\ ops'[o].res = "failure")
           => /\ sentences' = sentences
              /\ ops'[o].pc = "ret"
              /\ ops'[o].rb = ops[o].cb /\ ops'[o].re = ops[o].ce
              /\ ops'[o].rfocus = getFocusedPosition(sentences)
              /\ lock' = 0
              /\ failure' = << [b |-> ops[o].cb, e |-> ops[o].ce,
                                message |-> "syntax"] >>
        /\ (/\ ops[o].kind = "stepForward" /\ ops[o].pc = "ret"
            /\ ops[o].res = "failure" /\ stmRef = "inst"
            /\ ops'[o].pc # "ret")
           => /\ ops'[o].pc = "idle"
              /\ sentences' = sentences
              /\ out' # <<>>
              /\ out'[Len(out')].t = "resp"
              /\ out'[Len(out')].style = "failure"
              /\ out'[Len(out')].b = ops[o].rb
              /\ out'[Len(out')].e = ops[o].re
              /\ out'[Len(out')].focus = ops[o].rfocus
              /\ \E i \in 1..Len(out') : out'[i].t = "diag"
              /\ Cardinality({i \in 1..Len(lastDiag') :
                     /\ lastDiag'[i].b = ops[o].rb
                     /\ lastDiag'[i].e = ops[o].re}) = 1
              /\ \A i \in 1..Len(lastDiag') :
                     (lastDiag'[i].b = ops[o].rb /\ lastDiag'[i].e = ops[o].re)
                     => /\ lastDiag'[i].severity = "Error"
                        /\ lastDiag'[i].message = "syntax" ]_vars

\* ---------------------------------------------------------------- C14
\* the text with the range of change c replaced, located in the text as it is
Replaced(text, c) ==
  SubSeq(text, 1, c.b) \o c.text \o SubSeq(text, c.b + c.len + 1, Len(text))

\* C14: when applyTextEdits changes text inside an executed sentence S and
\* the change is not passive, the rewind is answered while the buffer is
\* still unchanged, the spine is cut down to the sentences before S, every
\* removed sentence is reported with a Clear highlight; when the operation
\* ends the buffer holds the edited text and the client holds no diagnostic
\* inside the range of the removed sentences
C14_EditInsideSentenceRewinds ==
  [][ \A o \in Slots :
        LET aff == AffectedBy(sentences, ops[o].changes)
            k == (CHOOSE i \in aff : \A j \in aff : i <= j) - 1
        IN
        /\ (/\ ops[o].kind = "applyTextEdits" /\ ops[o].pc = "editAt"
            /\ ~ops[o].orphan /\ ops'[o].pc = "ret")
           => /\ aff # {}
              /\ documentText' = documentText
              /\ sentences' = SubSeq(sentences, 1, k)
              /\ \A i \in (k + 1)..Len(sentences) :
                    \E j \in 1..Len(out') :
                       /\ out'[j].t = "hl" /\ out'[j].style = "Clear"
                       /\ out'[j].sid = sentences[i].sid
                       /\ out'[j].b = sentences[i].b
                       /\ out'[j].e = sentences[i].e
        /\ (/\ ops[o].kind = "applyTextEdits" /\ ops[o].pc = "ret"
            /\ ops[o].rb < ops[o].re /\ ops'[o].pc # "ret")
           => /\ documentText' = Replaced(documentText, Head(ops[o].changes))
              /\ \A i \in 1..Len(lastDiag') :
                    ~(/\ ops[o].rb <= lastDiag'[i].b
                      /\ lastDiag'[i].e <= ops[o].re) ]_vars

\* ---------------------------------------------------------------- C15
\* C15: when a stepForward whose command succeeded has been followed by a
\* stepBackward and nothing else, the tip has the state id it had before the
\* pair, the focus is where it was, and the diagnostics list the client
\* holds is the one it held before the pair
C15_StepForwardBackwardRestores ==
  pair.stage = "done"
  => /\ TipSid(sentences) = pair.sid
     /\ getFocusedPosition(sentences) = pair.focus
     /\ lastDiag = pair.diag

\* ------------------------------------------------- edit batches (C16, C17)
MaxVersion == 2    \* versions a client sends
MaxBatch == 2      \* changes of one batch

\* the changes of a batch: those of Changes and the removal of the first
\* character, as far as they lie in the text
EditChanges(text) ==
  {c \in Changes(text) \cup {[b |-> 0, len |-> 1, text |-> <<>>]} :
      c.b + c.len <= Len(text)}

\* no two changes of the batch have ranges that overlap
NonOverlapping(cs) ==
  \A i, j \in 1..Len(cs) :
     i # j => \/ cs[i].b + cs[i].len <= cs[j].b
              \/ cs[j].b + cs[j].len <= cs[i].b

\* the batches a client sends, in any order of their changes
Batches(text) ==
  {cs \in UNION {[1..n -> EditChanges(text)] : n \in 1..MaxBatch} :
      NonOverlapping(cs)}

\* a document at some version, nothing executed
InitEdits ==
  /\ documentText \in InitTexts
  /\ version \in 0..MaxVersion
  /\ stmRef = "inst"
  /\ running = TRUE
  /\ sentences = <<>>
  /\ failure = <<>>
  /\ lock = 0
  /\ waiting = <<>>
  /\ events = <<>>
  /\ stale = <<>>
  /\ nextSid = 1
  /\ ops = [o \in Slots |-> IdleOp]
  /\ out = <<>>
  /\ lastDiag = <<>>
  /\ cleared = {}
  /\ parsing = [o \in Slots |-> {}]
  /\ iter = NoIter
  /\ nOps = 0
  /\ pair = NoPair
  /\ NoLsp
  /\ NoClient

NextEdits ==
  \/ \E o \in Slots : \E cs \in Batches(documentText) :
        \E nv \in 1..(MaxVersion + 1) : applyTextEdits(o, cs, nv)
  \/ \E o \in Slots : applyChanges(o)
  \/ \E o \in Slots : \E reason \in {"throw", "throwUndefined"} :
        applyChangesThrows(o, reason)
  \/ \E o \in Slots : afterApplyChanges(o)

SpecEdits == InitEdits /\ [][NextEdits]_vars

\* the applyTextEdits in slot o is about to resume after stm.applyChanges
EditResumes(o) ==
  /\ ops[o].kind = "applyTextEdits" /\ ops[o].pc = "ret"
  /\ ops'[o].pc # "ret"

\* ---------------------------------------------------------------- C16
\* C16: an applyTextEdits whose newVersion is not above the current version
\* is rejected with StaleEdit: the text and the version stay as they are
C16_StaleEditRejected ==
  [][ \A o \in Slots :
        (EditResumes(o) /\ ops[o].ver <= version)
        => /\ documentText' = documentText
           /\ version' = version
           /\ \E i \in 1..Len(out') :
                 out'[i].t = "resp" /\ out'[i].style = "StaleEdit" ]_vars

\* ---------------------------------------------------------------- C17
\* the text with every change of cs spliced in, cs in the order of the
\* ranges, each range located in the text as it is
RECURSIVE Splice(_, _, _, _)
Splice(text, cs, k, pos) ==
  IF k > Len(cs) THEN SubSeq(text, pos + 1, Len(text))
  ELSE SubSeq(text, pos + 1, cs[k].b) \o cs[k].text
       \o Splice(text, cs, k + 1, cs[k].b + cs[k].len)

\* the texts a batch can stand for: its changes taken in an order of their
\* ranges (changes with the same start in either order)
ExpectedTexts(text, cs) ==
  {Splice(text, s, 1, 0) :
     s \in {q \in {[i \in 1..Len(cs) |-> cs[p[i]]] :
                     p \in Permutations(1..Len(cs))} :
              \A i, j \in 1..Len(q) : i < j => q[i].b + q[i].len <= q[j].b}}

\* C17: a batch of changes with pairwise non-overlapping ranges (changes
\* with the same start included), given in any order, is applied latest
\* position first, so that the new text is the old one with each range
\* replaced where the offsets of before the batch locate it; the text and
\* the version change in one step
C17_BatchAppliedByOldOffsets ==
  [][ /\ \A o \in Slots :
           EditResumes(o)
           => /\ \A i, j \in 1..Len(ops[o].changes) :
                    i < j => ops[o].changes[i].b >= ops[o].changes[j].b
              /\ documentText' \in ExpectedTexts(documentText, ops[o].changes)
              /\ version' = ops[o].ver
      /\ (documentText' # documentText \/ version' # version)
         => \E o \in Slots : EditResumes(o) ]_vars

\* ------------------------------------------------- prover death, shutdown
\* a reset notification is among the outputs of the step
ResetSent == \E i \in 1..Len(out') : out'[i].t = "reset"

\* the step takes up a quitCoq or a close
ShutdownRequested ==
  \E o \in Slots : ops[o].pc = "idle" /\ ops'[o].kind \in {"quitCoq", "close"}

\* the step takes up the command in slot o
CommandArrives(o) ==
  ops[o].pc = "idle" /\ ops'[o].kind \in Commands

\* the step answers the command it has taken up with not-running, and no
\* operation is left suspended for it
NotRunningAnswered(o) ==
  /\ ops'[o].pc = "idle"
  /\ \E i \in 1..Len(out') :
        out'[i].t = "resp" /\ out'[i].op = o /\ out'[i].style = "not-running"

\* no quitCoq or close is under way
NoShutdown == \A p \in Slots : ops[p].kind \notin {"quitCoq", "close"}

\* ---------------------------------------------------------------- C18
\* C18: when the prover has died the STM is not running: the step that
\* reports the death to the client leaves the STM not running, and a command
\* that arrives while the prover is dead (the STM is there, it does not run,
\* no shutdown is under way) is answered with not-running and leaves the
\* STM as it is: the controller does not put a new prover in place
C18_DeadUntilReset ==
  [][ /\ ResetSent => ~running'
      /\ \A o \in Slots :
           (/\ CommandArrives(o)
            /\ stmRef = "inst" /\ ~running /\ NoShutdown)
           => /\ NotRunningAnswered(o)
              /\ stmRef' = "inst" /\ ~running' ]_vars

\* ---------------------------------------------------------------- C19
\* C19: every step in which the prover dies (the STM stops running and no
\* quitCoq or close has asked for it) sends a reset notification
C19_DeathSendsReset ==
  [][ (/\ stmRef = "inst" /\ running
       /\ stmRef' = "inst" /\ ~running'
       /\ ~ShutdownRequested)
      => ResetSent ]_vars

\* ---------------------------------------------------------------- C20
\* the STM has been shut down by quitCoq or close: quitCoq has removed it,
\* or a quitCoq or close that has called shutdown awaits its end
ShutDown ==
  /\ NeedStm
  /\ \/ stmRef = "null"
     \/ \E p \in Slots : ops[p].pc \in {"shutdown", "closing"}

\* C20: when quitCoq or close returns, the STM is not running, and a
\* stepForward, stepBackward, interpretToPoint or interpretToEnd that
\* arrives once the STM has been shut down is answered with not-running:
\* no STM is created and no call of an STM is queued
C20_NotRunningAfterShutdown ==
  [][ /\ \A o \in Slots :
           (ops[o].pc \in {"shutdown", "closing"} /\ ops'[o].pc = "idle")
           => ~running'
      /\ \A o \in Slots :
           (CommandArrives(o) /\ ShutDown)
           => /\ NotRunningAnswered(o)
              /\ stmRef' = stmRef /\ ~running'
              /\ waiting' = waiting ]_vars

\* ---------------------------------------------------------------- C21
\* the results that carry a focus
Focused == {"proof-view", "no-proof", "failure", "interrupted"}

\* the result the step returns to the client for the operation in slot o
Returned(o) ==
  {i \in 1..Len(out') : /\ out'[i].t = "resp" /\ out'[i].op = o
                        /\ out'[i].kind \in Commands \cup {"getGoal"}}

\* C21: a proof-view, no-proof, failure or interrupted result returned by
\* stepForward, stepBackward, interpretToPoint, interpretToEnd or getGoal
\* carries a focus: the focus of the document's STM when the result comes
\* from getGoal, and, for a result the STM's step operation returned itself,
\* the focus that STM had when it produced the result; a not-running result
\* carries none
C21_ResultsCarryFocus ==
  [][ \A o \in Slots :
        /\ \A i \in Returned(o) :
              /\ out'[i].style = "not-running" => out'[i].focus = NoFocus
              /\ out'[i].style \in Focused =>
                    /\ out'[i].focus # NoFocus
                    /\ out'[i].focus =
                         IF ops[o].pc = "goalRet"
                         THEN getFocusedPosition(sentences')
                         ELSE ops[o].rfocus
        /\ (/\ ops[o].kind \in Commands \cup {"getGoal"}
            /\ ops[o].pc \in InStm /\ ops'[o].pc = "ret"
            /\ ops'[o].res \in Focused)
           => ops'[o].rfocus = IF ops[o].orphan THEN ops[o].rfocus
                               ELSE getFocusedPosition(sentences')
        /\ (~ops[o].orphan /\ ops'[o].orphan)
           => ops'[o].rfocus = getFocusedPosition(sentences) ]_vars

\* a command has returned a proof view whose focus is the end of the first
\* sentence
C21_Witness ==
  \E i \in 1..Len(out) :
     /\ out[i].t = "resp" /\ out[i].kind \in Commands
     /\ out[i].style = "proof-view" /\ out[i].focus = 2

\* ---------------------------------------------------------------- C22
\* the step sends a highlight of this style for the range b..e
Highlighted(style, b, e) ==
  \E i \in 1..Len(out') :
     /\ out'[i].t = "hl" /\ out'[i].style = style
     /\ out'[i].b = b /\ out'[i].e = e

\* the step sends the prover an add for the operation in slot o
AddCalled(o) ==
  /\ ops'[o].pc = "add"
  /\ ops[o].pc # "add" \/ ops'[o].cb # ops[o].cb

\* no text edit has been made or is under way
NeverEdited == version = 0 /\ NoEditInFlight

\* C22: the step that sends the prover an add for a stepForward,
\* interpretToPoint or interpretToEnd has sent a Parsing highlight for the
\* range of that sentence; the step in which the add fails sends a Clear
\* highlight for that range; and when such an operation returns a failure or
\* interrupted result (no text edit being involved), nothing the operation
\* has had highlighted as Parsing is still shown so from the focus on
C22_ParsingHighlightCleared ==
  [][ \A o \in Slots :
        /\ (AddCalled(o) /\ ops'[o].kind \in Forward)
           => Highlighted("Parsing", ops'[o].cb, ops'[o].ce)
        /\ (/\ ops[o].pc = "add" /\ ~ops[o].orphan
            /\ ops'[o].pc = "ret" /\ ops'[o].res = "failure")
           => Highlighted("Clear", ops[o].cb, ops[o].ce)
        /\ (/\ ops[o].kind \in Forward /\ NeverEdited
            /\ \E i \in Returned(o) : out'[i].style \in {"failure", "interrupted"})
           => \A k \in parsing'[o] : k < getFocusedPosition(sentences') ]_vars

\* ---------------------------------------------------------------- C23
\* the step is one of the query in slot o: its arrival, its STM call, the
\* prover's answer or its return
QueryStep(o) ==
  /\ ops'[o].pc # ops[o].pc
  /\ ops[o].kind \in Queries \/ ops'[o].kind \in Queries

\* C23: no step of locateIdent, checkTerm, search or searchAbout changes the
\* spine (sentences, tip, focus, errors), the text or the version, and none
\* sends a highlight or a diagnostics notification
C23_QueriesChangeNothing ==
  [][ \A o \in Slots :
        QueryStep(o)
        => /\ sentences' = sentences /\ failure' = failure
           /\ stmRef' = stmRef /\ running' = running
           /\ documentText' = documentText /\ version' = version
           /\ lastDiag' = lastDiag
           /\ \A i \in 1..Len(out') : out'[i].t \notin {"hl", "diag"} ]_vars

\* a query has been answered by the prover while the spine holds a sentence
C23_Witness ==
  /\ sentences # <<>>
  /\ \E i \in 1..Len(out) :
        /\ out[i].t = "resp" /\ out[i].kind \in Queries
        /\ out[i].style = "answer"

\* ---------------------------------------------------------------- C24
\* the statuses that end a computation
FinalStatus == {"Finished", "Interrupted"}

\* the prover call of the command in slot o ends in this step
CallEnds(o) ==
  /\ ops[o].kind \in Commands
  /\ ops[o].pc \in Outstanding /\ ops'[o].pc \notin Outstanding

\* C24: the step in which the prover call of a stepForward, stepBackward,
\* interpretToPoint or interpretToEnd ends sends the client a final
\* computing status (the Computing statuses sampled while the call is
\* outstanding come before it)
C24_ComputingStatusSent ==
  [][ \A o \in Slots :
        CallEnds(o)
        => \E i \in 1..Len(out') :
              /\ out'[i].style \in FinalStatus
              /\ out'[i] = updateComputingStatus(out'[i].style, out'[i].e) ]_vars

\* ---------------------------------------------------------------- C25
\* the sentences of text from offset cur on, each without the blanks in
\* front of it: "A. B. C." gives [0,2), [3,5), [6,8)
RECURSIVE SentenceRanges(_, _)
SentenceRanges(text, cur) ==
  LET rest == substring(text, cur, Len(text))
      length == parseSentence(rest)
  IN  IF length <= 0 THEN <<>>
      ELSE << [b |-> cur + LeadingBlanks(rest), e |-> cur + length] >>
           \o SentenceRanges(text, cur + length)

\* the prover has accepted and completed every sentence of the spine
AllComplete ==
  /\ sentences # <<>> /\ failure = <<>>
  /\ \A i \in 1..Len(sentences) :
        sentences[i].status = "Complete" /\ ~sentences[i].err

\* C25: on a text that is not edited, the k-th sentence stepForward puts on
\* the spine has the range of the k-th sentence of the text, the blanks in
\* front of it left out; and once the prover has completed every sentence
\* of the spine and nothing is pending, the focus is the end of the last of
\* them and the client's diagnostics list is empty
C25_LinearProgress ==
  (NeverEdited /\ stmRef = "inst")
  => /\ Len(sentences) <= Len(SentenceRanges(documentText, 0))
     /\ \A i \in 1..Len(sentences) :
           /\ sentences[i].b = SentenceRanges(documentText, 0)[i].b
           /\ sentences[i].e = SentenceRanges(documentText, 0)[i].e
     /\ (Settled /\ AllComplete)
        => /\ getFocusedPosition(sentences)
                = SentenceRanges(documentText, 0)[Len(sentences)].e
           /\ lastDiag = <<>>

\* ---------------------------------------------------------------- C26
\* the step yields a command
Yields == iter'.state = "suspendedYield" /\ iter' # iter

\* C26: the first command the sequence yields starts at begin, every later
\* one starts where the one before it ended; the range of a command has its
\* start before its end, and its text is the text of the buffer between them
C26_CommandsContiguous ==
  [][ Yields
      => /\ iter'.result.b = IF iter.state = "suspendedStart"
                             THEN offsetAt(documentText, iter.begin)
                             ELSE iter.result.e
         /\ iter'.result.b < iter'.result.e
         /\ iter'.result.text
              = SubSeq(documentText, iter'.result.b + 1, iter'.result.e) ]_vars

\* ---------------------------------------------------------------- C27
\* C27: with an end position given, no command the sequence yields ends
\* after the end offset, and nothing is yielded when begin is at or after
\* the end
C27_StopsAtEnd ==
  [][ (Yields /\ iter.end # NoEnd)
      => /\ iter'.result.e <= offsetAt(documentText, iter.end)
         /\ offsetAt(documentText, iter.begin)
              < offsetAt(documentText, iter.end) ]_vars

\* ---------------------------------------------------------------- C29
\* C29: a consumer that keeps requesting commands reaches the end of the
\* sequence; no command it gets has an empty or inverted range, and the
\* current offset never moves backwards
C29_SequenceEnds ==
  /\ <>(iter.state = "closed")
  /\ [][ /\ iter'.currentOffset >= iter.currentOffset
         /\ Yields => iter'.result.b < iter'.result.e ]_vars

\* ---------------------------------------------------------------- C28
\* the STM starts working on the call of the command in slot o
CallServed(o) ==
  /\ ops[o].kind \in Commands
  /\ ops[o].pc = "call" /\ ~ops[o].orphan
  /\ ops'[o].pc \in {"add", "editAt", "ret"}

\* C28: when a stepForward, stepBackward, interpretToPoint or
\* interpretToEnd has arrived the document has a running STM, a new one with
\* an empty spine if there was none or it did not run, and the command's
\* call waits in it; and the STM that starts working on the call is running
C28_CommandGetsRunningStm ==
  [][ \A o \in Slots :
        /\ CommandArrives(o)
           => /\ stmRef' = "inst" /\ running'
              /\ NeedStm => (sentences' = <<>> /\ waiting' = << o >>)
              /\ ops'[o].pc = "call" /\ ~ops'[o].orphan
              /\ \E i \in 1..Len(waiting') : waiting'[i] = o
        /\ CallServed(o) => (stmRef = "inst" /\ running) ]_vars

\* a command has arrived while quitCoq awaited the shutdown: its call waits
\* in a new, running STM
C28_Witness ==
  \E o, p \in Slots :
     /\ ops[p].pc = "shutdown"
     /\ ops[o].kind \in Commands /\ ops[o].pc = "call" /\ ~ops[o].orphan
     /\ stmRef = "inst" /\ running

\* ---------------------------------------------------------------- C30
\* the highlights and results among notes, a result of interpretToEnd read
\* as one of interpretToPoint
AsToPoint(notes) ==
  LET kept == SelectSeq(notes, LAMBDA n : n.t \in {"hl", "resp"})
  IN  [i \in 1..Len(kept) |->
         IF kept[i].kind = "interpretToEnd"
         THEN [kept[i] EXCEPT !.kind = "interpretToPoint"] ELSE kept[i]]

\* what interpretToPoint returns when it leaves with the result of op
ToPointReturn(o, op) ==
  IF stmRef = "null"
  THEN Resp(o, "interpretToPoint", "throw", 0, 0, NoFocus, FALSE)
  ELSE IF op.pc = "goalRet"
  THEN Resp(o, "interpretToPoint", op.res, 0, 0,
            IF op.res = "throw" THEN NoFocus
            ELSE toGoal(op.res, getFocusedPosition(sentences)), FALSE)
  ELSE Resp(o, "interpretToPoint", op.res, op.rb, op.re, op.rfocus, FALSE)

\* the operation holds the result r of its interpretToPoint
Holds(op, r) ==
  /\ op.pc = "outerRet"
  /\ op.res = r.style /\ op.rb = r.b /\ op.re = r.e /\ op.rfocus = r.focus

\* C30: interpretToEnd does what interpretToPoint does with the length of
\* the text for its target: on arrival it sends the same Parsing highlight
\* (from the focus to the end of the text) and makes the same STM call; when
\* the STM call has returned it asks for the goal exactly when
\* interpretToPoint does; and what interpretToPoint returns or throws is
\* what interpretToEnd returns or throws, with no highlight of its own
C30_ToEndIsToPointAtLength ==
  [][ \A o \in Slots :
        /\ (ops[o].pc = "idle" /\ ops'[o].kind = "interpretToEnd")
           => /\ AsToPoint(out')
                  = << Note("hl", o, "", "Parsing",
                            getFocusedPosition(sentences'),
                            positionAt(documentText, Len(documentText)),
                            0, NoFocus, <<>>) >>
              /\ ops'[o] = [IdleOp EXCEPT !.kind = "interpretToEnd",
                                          !.pc = "call",
                                          !.tgt = Len(documentText)]
        /\ (/\ ops[o].kind = "interpretToEnd"
            /\ ops[o].pc = "ret" /\ ops'[o].pc # "ret")
           => IF stmRef # "null"
                 /\ ~errorReturned([ops[o] EXCEPT !.kind = "interpretToPoint"])
              THEN ops'[o].pc = "goalCall" /\ AsToPoint(out') = <<>>
              ELSE Holds(ops'[o], ToPointReturn(o, ops[o]))
                   /\ AsToPoint(out') = <<>>
        /\ (/\ ops[o].kind = "interpretToEnd"
            /\ ops[o].pc = "goalRet" /\ ops'[o].pc # "goalRet")
           => /\ Holds(ops'[o], ToPointReturn(o, ops[o]))
              /\ AsToPoint(out') = <<>>
        /\ (/\ ops[o].kind = "interpretToEnd"
            /\ ops[o].pc = "outerRet" /\ ops'[o].pc # "outerRet")
           => /\ ops'[o].pc = "idle"
              /\ AsToPoint(out')
                  = << Resp(o, "interpretToPoint", ops[o].res, ops[o].rb,
                            ops[o].re, ops[o].rfocus, FALSE) >> ]_vars

\* ---------------------------------------------------------------- C31
\* C31: when stm.applyChanges has thrown, whatever it has thrown,
\* applyTextEdits resumes all the same: it writes a line to the client's
\* console, returns no error, applies every change of the batch to the text
\* and sets the version to newVersion
C31_EditSurvivesStmThrow ==
  [][ \A o \in Slots :
        (EditResumes(o) /\ ops[o].res \in {"throw", "throwUndefined"})
        => /\ out' = << clientConsoleError(o) >>
           /\ documentText' = applySortedChanges(documentText, ops[o].changes)
           /\ version' = ops[o].ver
           /\ ops'[o].pc = "idle" ]_vars

\* ---------------------------------------------------------------- C32
\* C32: an operation that runs while the document has no STM (quitCoq has
\* discarded it) does not end with an exception: no stepForward,
\* stepBackward, interpretToPoint, interpretToEnd, getGoal, close or
\* applyTextEdits returns by throwing in a step that finds this.stm null
C32_NoMissingStmDereference ==
  [][ stmRef = "null"
      => \A i \in 1..Len(out') :
            (/\ out'[i].t = "resp"
             /\ out'[i].kind \in Commands \cup {"getGoal", "close",
                                                "applyTextEdits"})
            => out'[i].style # "throw" ]_vars

\* ---------------------------------------------------------------- C33
\* the step handles the coqDied of an STM that resetCoq has replaced
ReplacedDeathHandled ==
  /\ stale # <<>> /\ Head(stale).status \in DiedStatuses
  /\ stale' # stale /\ nOps' = nOps

\* C33: the coqDied of an STM that resetCoq has replaced leaves the STM of
\* the document as it is (not shut down, not replaced, its spine and its
\* pending calls kept) and sends no reset notification
C33_ReplacedDeathIgnored ==
  [][ ReplacedDeathHandled
      => /\ stmRef' = stmRef /\ running' = running
         /\ sentences' = sentences /\ events' = events
         /\ ops' = ops /\ waiting' = waiting
         /\ ~ResetSent ]_vars

\* ---------------------------------------------------------------- C34
\* C34: every highlight sent has a range whose start is not after its end,
\* the Parsing highlight of interpretToPoint included, whatever the target
C34_HighlightRangesWellFormed ==
  [][ \A i \in 1..Len(out') :
         out'[i].t = "hl" => out'[i].b <= out'[i].e ]_vars

\* ---------------------------------------------------------------- C35
\* the operation of one of the kinds arrives in slot o in this step
Arrives(o, kinds) ==
  /\ ops[o].pc = "idle"
  /\ \/ ops'[o].kind \in kinds
     \/ \E i \in 1..Len(out') :
           out'[i].t = "resp" /\ out'[i].op = o /\ out'[i].kind \in kinds

\* the step leaves the STM, its prover and the calls that wait in it alone
StmUntouched ==
  /\ stmRef' = stmRef /\ running' = running
  /\ sentences' = sentences /\ failure' = failure
  /\ events' = events /\ lock' = lock
  /\ waiting' = waiting /\ ops' = ops

\* C35: without a running STM getGoal returns not-running and sends no
\* diagnostics, the four queries return "Coq is not running", and
\* setWrappingWidth, requestLtacProfResults, interrupt and quitCoq return at
\* once; none of them makes a call to an STM, creates one or restarts one
C35_NotRunningDoesNothing ==
  [][ NeedStm
      => /\ \A o \in Slots :
              /\ Arrives(o, {"getGoal"} \cup Queries)
                 => /\ StmUntouched
                    /\ \E k \in {"getGoal"} \cup Queries :
                          out' = << Resp(o, k, "not-running", 0, 0, NoFocus, TRUE) >>
              /\ Arrives(o, Controls \cup {"quitCoq"})
                 => /\ StmUntouched
                    /\ \E k \in Controls \cup {"quitCoq"} :
                          out' = << Resp(o, k, "done", 0, 0, NoFocus, TRUE) >>
         /\ interrupt => (StmUntouched /\ out' = <<>>) ]_vars

\* a query has been answered "Coq is not running" while the document has
\* an STM whose prover does not run
C35_Witness ==
  /\ stmRef = "inst" /\ ~running
  /\ \E i \in 1..Len(out) :
        /\ out[i].t = "resp" /\ out[i].kind \in Queries
        /\ out[i].style = "not-running" /\ out[i].sid = 1

\* ---------------------------------------------------------------- C36
\* the loop has handled an input event in this step
InputHandled == requests' = requests + 1

\* C36: after the LSP manager has handled an input event, whatever it was
\* (a request, a request for an unknown method or a document that is not
\* open, input that was not read or not decoded), the stdin event is among
\* the events its loop waits for
C36_StaysSubscribed ==
  [][ InputHandled => todo'.lsp > 0 ]_vars

\* ---------------------------------------------------------------- C37
\* C37: a highlight notification whose uri is not the uri of the document
\* leaves what the editors of the document show as highlights as it is
C37_OtherUriHighlightsIgnored ==
  [][ \A params \in HighlightParams : \A visible \in BOOLEAN :
        (onDidUpdateHighlights(params, visible) /\ params.uri # documentUri)
        => highlights' = highlights ]_vars

\* ---------------------------------------------------------------- C38
\* the command in client slot c starts, ends in this step
CommandStarts(c) == commands[c].pc = "idle" /\ commands'[c] # commands[c]

CommandEnds(c) == commands'[c].ends # commands[c].ends

\* C38: a command of the editor client sets the status bar to working when
\* it starts; the step in which it ends, by completing, by returning early
\* or by the rejection of its request, leaves the status bar ready, and
\* when quitCoq or resetCoq ends no highlight is left
C38_StatusBarReadyOnExit ==
  [][ \A c \in ClientSlots :
        /\ (CommandStarts(c) /\ ~CommandEnds(c)) => statusBar' = "working"
        /\ CommandEnds(c)
           => /\ statusBar' = "ready"
              /\ commands[c].kind \in {"quitCoq", "resetCoq"}
                 => highlights' = {} ]_vars

====
